---- MODULE Spec2Model ----
(***************************************************************************)
(* Model of the vv-dsp Python validation harness (src/python): the         *)
(* configuration provider of common.py, the frame-count and                *)
(* autocorrelation references, and the life cycle of the eight test        *)
(* drivers (import guard, subject invocation, decoding, comparison, exit   *)
(* status).                                                                *)
(*                                                                         *)
(* Conventions.  A text is a sequence of one-character strings.  A float   *)
(* is a decimal [m |-> mantissa, e |-> exponent of ten], normalised so     *)
(* that m has no trailing zero.  Sample values are integers counted in     *)
(* millionths.  An optional value (os.getenv) is [set, val].               *)
(***************************************************************************)
EXTENDS Integers, Sequences, FiniteSets, TLC

VARIABLES
    env,        \* os.environ: variable name -> [set, val]
    cfg_call,   \* configuration provider: the call made ([fn, name, dflt, dflt2])
    cfg_ret,    \* configuration provider: what the call returned or raised
    env0,       \* the environment as it was before the call
    fr_table,   \* test_get_num_frames: the table of test cases it runs over
    fr_row,     \* test_get_num_frames: the row of the outer loop (1-based)
    fr_center,  \* test_get_num_frames: is_center of the inner loop
    fr_n,       \* test_get_num_frames: n_frames_librosa
    fr_state,   \* "compute" | "assert" | "passed" | "raised"
    st_x,       \* stats driver: the signal x
    st_ref,     \* stats driver: the lags of ref computed so far, each [num, den]
    family,     \* the driver that runs
    have,       \* package -> whether it can be imported
    n,          \* args.n
    args_m,     \* args.m (test_czt.py)
    pc,         \* the next statement of the driver (index into its program)
    exit,       \* [done, code, why]: the driver's exit status once it has ended
    HAVE_SCIPY, \* test_dct.py's flag
    x,          \* the current test signal
    y,          \* the last decoded subject output
    h,          \* test_filters.py: the coefficients loaded from tmp_fir_coeffs.txt
    ref,        \* the reference result
    proc,       \* the last subject invocation: [rc, out, coeffs]
    call,       \* [sub, ref, prev]: the parameters last given to a subject and to a
                \* reference; the subject invocation before the last and its output
    rtol,       \* the relative tolerance in effect
    atol,       \* the absolute tolerance in effect
    files,      \* the working directory: file name -> lines
    log,        \* the statements executed so far, in order
    failed_at,  \* Len(log) when a subject invocation ended non-zero (0: none did)
    bad_output, \* a subject ended with status 0 and malformed output
    cmp,        \* the last comparison: [rtol, atol, ylen, reflen, ok, elementwise,
                \* rms_tried]
    sh_family,  \* two concurrent runs: the driver both are runs of
    sh_dir,     \* two concurrent runs: the directory they share, name -> [by, at]
    sh_run,     \* two concurrent runs: run -> [pc, name, wrote, fed, read, got, ended]
    ii_x,       \* IIR reference: the input signal, in units of 10^-MaxIirLen
    ii_y,       \* IIR reference: the output samples computed so far
    lp_in,      \* frame loops: [signal_len, frame_len, hop_len]
    lp          \* frame loops: [n_frames, i, whole, padded, j, added, start, visits]

cfgvars == <<env, cfg_call, cfg_ret, env0>>
frvars == <<fr_table, fr_row, fr_center, fr_n, fr_state>>
stvars == <<st_x, st_ref>>

drvars == <<family, have, n, args_m, pc, exit, HAVE_SCIPY, x, y, h, ref, proc, call, rtol,
            atol, files, log, failed_at, bad_output, cmp>>
shvars == <<sh_family, sh_dir, sh_run>>
fnvars == <<ii_x, ii_y, lp_in, lp>>

vars == <<env, cfg_call, cfg_ret, env0, fr_table, fr_row, fr_center, fr_n, fr_state,
          st_x, st_ref, family, have, n, args_m, pc, exit, HAVE_SCIPY, x, y, h, ref, proc,
          call, rtol, atol, files, log, failed_at, bad_output, cmp,
          sh_family, sh_dir, sh_run, ii_x, ii_y, lp_in, lp>>

(***************************************************************************)
(* Bounds of the model.                                                    *)
(***************************************************************************)
MaxFloatLen == 3    \* longest text tried as a value of VV_PY_RTOL / VV_PY_ATOL
MaxBoolLen == 3     \* longest text tried as a value of VV_PY_VERBOSE
MaxSignalLen == 6   \* longest signal_len of a sampled frame-count case
MaxFrameLen == 3    \* longest frame_len of a sampled frame-count case
MaxHopLen == 3      \* longest hop_len of a sampled frame-count case
MaxStatsLen == 3    \* longest signal of the autocorrelation reference
MaxN == 2           \* largest -n (signal length) given to a driver

(***************************************************************************)
(* Texts.                                                                  *)
(***************************************************************************)
FloatAlphabet == {"0", "1", ".", "e", "-", " "}
BoolAlphabet == {"1", "o", "n", "O", "N", "y", "e", "s", "Y", " "}

TextsUpTo(alphabet, maxlen) == UNION {[1..k -> alphabet] : k \in 0..maxlen}

Unset == [set |-> FALSE, val |-> <<>>]
SetTo(s) == [set |-> TRUE, val |-> s]

IsSpace(c) == c = " "
IsDigit(c) == c \in {"0", "1", "2", "3", "4", "5", "6", "7", "8", "9"}

DigitOf(c) ==
    CASE c = "0" -> 0 [] c = "1" -> 1 [] c = "2" -> 2 [] c = "3" -> 3
      [] c = "4" -> 4 [] c = "5" -> 5 [] c = "6" -> 6 [] c = "7" -> 7
      [] c = "8" -> 8 [] c = "9" -> 9

RECURSIVE LStrip(_)
LStrip(s) == IF s # <<>> /\ IsSpace(Head(s)) THEN LStrip(Tail(s)) ELSE s

RECURSIVE RStrip(_)
RStrip(s) ==
    IF s # <<>> /\ IsSpace(s[Len(s)]) THEN RStrip(SubSeq(s, 1, Len(s) - 1)) ELSE s

\* str.strip(): leading and trailing whitespace removed.
Strip(s) == RStrip(LStrip(s))

\* str.lower() of one character, and of a text.
LowerChar(c) ==
    CASE c = "O" -> "o" [] c = "N" -> "n" [] c = "Y" -> "y" [] c = "E" -> "e"
      [] c = "S" -> "s" [] c = "T" -> "t" [] c = "R" -> "r" [] c = "U" -> "u"
      [] OTHER -> c

Lower(s) == [i \in 1..Len(s) |-> LowerChar(s[i])]

(***************************************************************************)
(* Decimals and Python's float(text).                                      *)
(***************************************************************************)
RECURSIVE Pow10(_)
Pow10(k) == IF k = 0 THEN 1 ELSE 10 * Pow10(k - 1)

RECURSIVE NormDec(_, _)
NormDec(m, e) ==
    IF m = 0 THEN [m |-> 0, e |-> 0]
    ELSE IF m % 10 = 0 THEN NormDec(m \div 10, e + 1)
    ELSE [m |-> m, e |-> e]

\* The decimal sign * m * 10^e.
Dec(neg, m, e) ==
    LET d == NormDec(m, e) IN [m |-> IF neg THEN 0 - d.m ELSE d.m, e |-> d.e]

\* How many digits s holds from position i on.
RECURSIVE DigitRun(_, _)
DigitRun(s, i) ==
    IF i <= Len(s) /\ IsDigit(s[i]) THEN 1 + DigitRun(s, i + 1) ELSE 0

\* The number written by the k digits of s from position i on.
RECURSIVE DigitsValue(_, _, _)
DigitsValue(s, i, k) ==
    IF k = 0 THEN 0
    ELSE 10 * DigitsValue(s, i, k - 1) + DigitOf(s[i + k - 1])

\* The mantissa of the stripped text s, [sign] digits [. [digits]]: the length of
\* the sign, of the integer and of the fraction digits, and where it ends.
FloatMantissa(s) ==
    LET signLen == IF Len(s) > 0 /\ s[1] \in {"-", "+"} THEN 1 ELSE 0
        nInt == DigitRun(s, signLen + 1)
        hasDot == signLen + nInt + 1 <= Len(s) /\ s[signLen + nInt + 1] = "."
        nFrac == IF hasDot THEN DigitRun(s, signLen + nInt + 2) ELSE 0
    IN  [signLen |-> signLen, nInt |-> nInt, nFrac |-> nFrac,
         next |-> signLen + nInt + 1 + (IF hasDot THEN 1 + nFrac ELSE 0)]

\* The exponent of s from position i3 on, [e [sign] digits].
FloatExponent(s, i3) ==
    LET hasExp == i3 <= Len(s) /\ s[i3] \in {"e", "E"}
        eSignLen ==
            IF hasExp /\ i3 + 1 <= Len(s) /\ s[i3 + 1] \in {"-", "+"} THEN 1 ELSE 0
        nExp == IF hasExp THEN DigitRun(s, i3 + 1 + eSignLen) ELSE 0
    IN  [hasExp |-> hasExp, eSignLen |-> eSignLen, nExp |-> nExp,
         next |-> i3 + (IF hasExp THEN 1 + eSignLen + nExp ELSE 0)]

\* The float that mantissa mt and exponent ex of s write, ValueError unless they
\* are all of s, with a digit in the mantissa and, after an e, in the exponent.
FloatValue(s, mt, ex) ==
    LET i1 == mt.signLen + 1
        ok == /\ mt.nInt + mt.nFrac >= 1
              /\ ex.hasExp => ex.nExp >= 1
              /\ ex.next = Len(s) + 1
        mant == DigitsValue(s, i1, mt.nInt) * Pow10(mt.nFrac)
                + DigitsValue(s, i1 + mt.nInt + 1, mt.nFrac)
        expAbs == DigitsValue(s, mt.next + 1 + ex.eSignLen, ex.nExp)
        expo == IF ex.eSignLen = 1 /\ s[mt.next + 1] = "-" THEN 0 - expAbs ELSE expAbs
    IN  IF ok
        THEN [exc |-> "none",
              val |-> Dec(mt.signLen = 1 /\ s[1] = "-", mant, expo - mt.nFrac)]
        ELSE [exc |-> "ValueError", val |-> [m |-> 0, e |-> 0]]

FloatOfMantissa(s, mt) == FloatValue(s, mt, FloatExponent(s, mt.next))

FloatOfStripped(s) == FloatOfMantissa(s, FloatMantissa(s))

\* float(text): [exc, val].  The text is stripped, then must be
\* [sign] digits [. [digits]] [e [sign] digits]  or  [sign] . digits [e ...];
\* anything else raises ValueError.
PyFloat(text) == FloatOfStripped(Strip(text))

(***************************************************************************)
(* common.py                                                               *)
(***************************************************************************)
getenv(name) == env[name]

BoolTokens == {<<"1">>, <<"t", "r", "u", "e">>, <<"y", "e", "s">>, <<"o", "n">>}

\* _env_bool without the lower(): the tokens are matched as written.
EnvBoolCaseSensitive(name, default) ==
    LET v == getenv(name)
    IN  IF ~v.set THEN default ELSE v.val \in BoolTokens

_env_bool(name, default) ==
    LET v == getenv(name)
    IN  IF ~v.set THEN default ELSE Lower(v.val) \in BoolTokens

\* The exceptions the try of _env_float catches.
EnvFloatCaught == {"ValueError", "TypeError"}

\* _env_float without its try: float(v) raises through.
EnvFloatUncaught(name, default) ==
    LET v == getenv(name)
    IN  IF ~v.set THEN [exc |-> "none", val |-> default] ELSE PyFloat(v.val)

\* [exc, val]: what _env_float(name, default) raises ("none": nothing) and returns.
_env_float(name, default) ==
    LET v == getenv(name)
        f == PyFloat(v.val)
    IN  IF ~v.set THEN [exc |-> "none", val |-> default]
        ELSE IF f.exc = "none" THEN f
        ELSE IF f.exc \in EnvFloatCaught THEN [exc |-> "none", val |-> default]
        ELSE [exc |-> f.exc, val |-> default]

\* [exc, rtol, atol].  rtol and atol are floats already when the defaults are, so
\* the two float(...) conversions that follow change nothing and raise nothing.
read_tolerances(default_rtol, default_atol) ==
    LET r == _env_float("VV_PY_RTOL", default_rtol)
        a == _env_float("VV_PY_ATOL", default_atol)
    IN  IF r.exc # "none" THEN [exc |-> r.exc, rtol |-> default_rtol, atol |-> default_atol]
        ELSE IF a.exc # "none"
        THEN [exc |-> a.exc, rtol |-> default_rtol, atol |-> default_atol]
        ELSE [exc |-> "none", rtol |-> r.val, atol |-> a.val]

is_verbose(default) == _env_bool("VV_PY_VERBOSE", default)

(***************************************************************************)
(* The configuration provider called on an arbitrary environment.          *)
(***************************************************************************)
EnvNames == {"VV_PY_RTOL", "VV_PY_ATOL", "VV_PY_VERBOSE"}

\* A few values of every kind: absent, malformed, and two parsable ones.
EnvSamples ==
    {Unset, SetTo(<<"x">>), SetTo(<<"1", "e", "-", "2">>), SetTo(<<"0", ".", "5">>)}

FloatTexts == {Unset} \cup {SetTo(s) : s \in TextsUpTo(FloatAlphabet, MaxFloatLen)}
BoolTexts == {Unset} \cup {SetTo(s) : s \in TextsUpTo(BoolAlphabet, MaxBoolLen)}

\* Call-site defaults (decimals): 1e-4 and 5e-2.
FloatDefaults == {Dec(FALSE, 1, -4), Dec(FALSE, 5, -2)}

NoDec == [m |-> 0, e |-> 0]
NoCall == [fn |-> "none", name |-> "", d1 |-> NoDec, d2 |-> NoDec, b |-> FALSE]
NoRet == [exc |-> "none", v1 |-> NoDec, v2 |-> NoDec, b |-> FALSE]

CfgIdle == cfg_call = NoCall /\ cfg_ret = NoRet

EnvEmpty == env = [nm \in EnvNames |-> Unset] /\ env0 = env

FramesIdle ==
    /\ fr_table = <<>>
    /\ fr_row = 0
    /\ fr_center = FALSE
    /\ fr_n = 0
    /\ fr_state = "idle"

StatsIdle == st_x = <<>> /\ st_ref = <<>>

SharedIdle == sh_family = "none" /\ sh_dir = <<>> /\ sh_run = <<>>

IirIdle == ii_x = <<>> /\ ii_y = <<>>

NoLoops ==
    [n_frames |-> 0, i |-> 0, whole |-> 0, padded |-> 0, j |-> 0, added |-> 0,
     start |-> 0, visits |-> 0]
LoopsIdle == lp_in = [signal_len |-> 0, frame_len |-> 0, hop_len |-> 0] /\ lp = NoLoops

NoExit == [done |-> FALSE, code |-> 0, why |-> ""]
NoProc == [rc |-> 0, out |-> <<>>, coeffs |-> <<>>]
NoParams == [cmd |-> ""]
NoCalls == [sub |-> NoParams, ref |-> NoParams, prev |-> [params |-> NoParams, out |-> <<>>]]
NoCmp ==
    [rtol |-> NoDec, atol |-> NoDec, ylen |-> 0, reflen |-> 0, ok |-> FALSE,
     elementwise |-> FALSE, rms_tried |-> FALSE]

\* The driver's registers before its first statement.
DriverFresh ==
    /\ pc = 1
    /\ exit = NoExit
    /\ HAVE_SCIPY = FALSE
    /\ x = <<>> /\ y = <<>> /\ h = <<>> /\ ref = <<>>
    /\ proc = NoProc
    /\ call = NoCalls
    /\ rtol = NoDec /\ atol = NoDec
    /\ files = <<>>
    /\ log = <<>>
    /\ failed_at = 0
    /\ bad_output = FALSE
    /\ cmp = NoCmp

DriverIdle ==
    /\ family = "none"
    /\ have = <<>>
    /\ n = 0
    /\ args_m = 0
    /\ DriverFresh

FloatInit ==
    /\ FramesIdle /\ StatsIdle /\ DriverIdle /\ SharedIdle /\ IirIdle /\ LoopsIdle
    /\ \E r, a \in FloatTexts \cup EnvSamples :
          /\ r \in EnvSamples \/ a \in EnvSamples
          /\ env = [nm \in EnvNames |->
                       CASE nm = "VV_PY_RTOL" -> r [] nm = "VV_PY_ATOL" -> a
                         [] OTHER -> Unset]
    /\ env0 = env
    /\ CfgIdle

BoolInit ==
    /\ FramesIdle /\ StatsIdle /\ DriverIdle /\ SharedIdle /\ IirIdle /\ LoopsIdle
    /\ \E v \in BoolTexts :
          env = [nm \in EnvNames |-> IF nm = "VV_PY_VERBOSE" THEN v ELSE Unset]
    /\ env0 = env
    /\ CfgIdle

CallEnvFloat ==
    \E nm \in {"VV_PY_RTOL", "VV_PY_ATOL"}, d \in FloatDefaults :
        LET r == _env_float(nm, d)
        IN  /\ cfg_call' = [fn |-> "_env_float", name |-> nm, d1 |-> d, d2 |-> NoDec,
                            b |-> FALSE]
            /\ cfg_ret' = [exc |-> r.exc, v1 |-> r.val, v2 |-> NoDec, b |-> FALSE]
            /\ UNCHANGED <<env, env0, frvars, stvars, drvars, shvars, fnvars>>

CallReadTolerances ==
    \E dr, da \in FloatDefaults :
        LET r == read_tolerances(dr, da)
        IN  /\ cfg_call' = [fn |-> "read_tolerances", name |-> "", d1 |-> dr, d2 |-> da,
                            b |-> FALSE]
            /\ cfg_ret' = [exc |-> r.exc, v1 |-> r.rtol, v2 |-> r.atol, b |-> FALSE]
            /\ UNCHANGED <<env, env0, frvars, stvars, drvars, shvars, fnvars>>

CallEnvBool ==
    \E d \in BOOLEAN :
        /\ cfg_call' = [fn |-> "_env_bool", name |-> "VV_PY_VERBOSE", d1 |-> NoDec,
                        d2 |-> NoDec, b |-> d]
        /\ cfg_ret' = [exc |-> "none", v1 |-> NoDec, v2 |-> NoDec,
                       b |-> _env_bool("VV_PY_VERBOSE", d)]
        /\ UNCHANGED <<env, env0, frvars, stvars, drvars, shvars, fnvars>>

CallIsVerbose ==
    \E d \in BOOLEAN :
        /\ cfg_call' = [fn |-> "is_verbose", name |-> "VV_PY_VERBOSE", d1 |-> NoDec,
                        d2 |-> NoDec, b |-> d]
        /\ cfg_ret' = [exc |-> "none", v1 |-> NoDec, v2 |-> NoDec, b |-> is_verbose(d)]
        /\ UNCHANGED <<env, env0, frvars, stvars, drvars, shvars, fnvars>>

FloatNext == CallEnvFloat \/ CallReadTolerances
BoolNext == CallEnvBool \/ CallIsVerbose

SpecFloat == FloatInit /\ [][FloatNext]_vars
SpecBool == BoolInit /\ [][BoolNext]_vars

(***************************************************************************)
(* test_framing.py: test_get_num_frames                                    *)
(***************************************************************************)
\* int(np.ceil(a / b)) for a >= 0, b >= 1.
CeilOfQuotient(a, b) == IF a % b = 0 THEN a \div b ELSE (a \div b) + 1

\* A frame count that floors the centered quotient and drops the short-signal test.
NumFramesFloored(signal_len, frame_len, hop_len, is_center) ==
    IF is_center THEN signal_len \div hop_len
    ELSE 1 + (signal_len - frame_len) \div hop_len

\* n_frames_librosa of one (signal_len, frame_len, hop_len, is_center).
n_frames_librosa(signal_len, frame_len, hop_len, is_center) ==
    IF is_center THEN CeilOfQuotient(signal_len, hop_len)
    ELSE IF signal_len < frame_len THEN 0
    ELSE 1 + (signal_len - frame_len) \div hop_len

Row(sl, fl, hl, c, enc, ec) ==
    [signal_len |-> sl, frame_len |-> fl, hop_len |-> hl, center |-> c,
     expected_non_centered |-> enc, expected_centered |-> ec]

test_cases ==
    << Row(1024, 256, 128, FALSE, 7, 8),
       Row(1024, 256, 128, TRUE, 7, 8),
       Row(1000, 512, 256, FALSE, 2, 4),
       Row(1000, 512, 256, TRUE, 2, 4),
       Row(100, 256, 128, FALSE, 0, 1),
       Row(100, 256, 128, TRUE, 0, 1) >>

\* The expectation the inner loop pairs with is_center.
ExpectedOf(row, is_center) ==
    IF is_center THEN row.expected_centered ELSE row.expected_non_centered

\* Tables the test is tried on besides its own: its own with one expectation off
\* by one, and one-row tables over small lengths with any small expectations.
PerturbedTables ==
    { [test_cases EXCEPT ![i].expected_non_centered = @ + d] :
        i \in 1..Len(test_cases), d \in {-1, 1} }
    \cup { [test_cases EXCEPT ![i].expected_centered = @ + d] :
        i \in 1..Len(test_cases), d \in {-1, 1} }

SampledTables ==
    { << Row(sl, fl, hl, FALSE, enc, ec) >> :
        sl \in 0..MaxSignalLen, fl \in 1..MaxFrameLen, hl \in 1..MaxHopLen,
        enc \in 0..(MaxSignalLen + 1), ec \in 0..(MaxSignalLen + 1) }

FramesInit ==
    /\ EnvEmpty /\ CfgIdle /\ StatsIdle /\ DriverIdle /\ SharedIdle /\ IirIdle /\ LoopsIdle
    /\ fr_table \in {test_cases} \cup PerturbedTables \cup SampledTables
    /\ fr_row = 1
    /\ fr_center = FALSE
    /\ fr_n = 0
    /\ fr_state = "compute"

\* Lines 72-78: the frame count of the current case and mode.
ComputeNumFrames ==
    /\ fr_state = "compute"
    /\ LET row == fr_table[fr_row]
       IN  fr_n' = n_frames_librosa(row.signal_len, row.frame_len, row.hop_len, fr_center)
    /\ fr_state' = "assert"
    /\ UNCHANGED <<fr_table, fr_row, fr_center, cfgvars, stvars, drvars, shvars, fnvars>>

\* Line 81: assert n_frames_librosa == expected; then the next mode or row.
AssertExpected ==
    /\ fr_state = "assert"
    /\ IF fr_n # ExpectedOf(fr_table[fr_row], fr_center)
       THEN /\ fr_state' = "raised"
            /\ UNCHANGED <<fr_row, fr_center>>
       ELSE IF ~fr_center
       THEN /\ fr_center' = TRUE
            /\ fr_state' = "compute"
            /\ UNCHANGED fr_row
       ELSE IF fr_row < Len(fr_table)
       THEN /\ fr_row' = fr_row + 1
            /\ fr_center' = FALSE
            /\ fr_state' = "compute"
       ELSE /\ fr_state' = "passed"
            /\ UNCHANGED <<fr_row, fr_center>>
    /\ UNCHANGED <<fr_table, fr_n, cfgvars, stvars, drvars, shvars, fnvars>>

FramesNext == ComputeNumFrames \/ AssertExpected

SpecFrames == FramesInit /\ [][FramesNext]_vars

(***************************************************************************)
(* test_stats.py: the reference autocorrelation                            *)
(***************************************************************************)
StatsValues == {-1, 0, 1, 2}

\* s[lo] + ... + s[hi], by halves.
RECURSIVE SumRange(_, _, _)
SumRange(s, lo, hi) ==
    IF lo > hi THEN 0
    ELSE IF lo = hi THEN s[lo]
    ELSE LET mid == (lo + hi) \div 2
         IN  SumRange(s, lo, mid) + SumRange(s, mid + 1, hi)

SeqSum(s) == SumRange(s, 1, Len(s))

\* np.mean of a non-empty sequence, as the fraction sum / count.
np_mean(s) == [num |-> SeqSum(s), den |-> Len(s)]

\* The lag with the divisor of the whole signal (the biased estimator).
AutocorrBiased(xs, k) ==
    [num |-> SeqSum([i \in 1..(Len(xs) - k) |-> xs[i] * xs[i + k]]), den |-> Len(xs)]

\* Line 25, one k: np.mean(x[:len(x)-k] * x[k:]).
autocorr_ref(xs, k) ==
    LET head == SubSeq(xs, 1, Len(xs) - k)
        tail == SubSeq(xs, k + 1, Len(xs))
    IN  np_mean([i \in 1..Len(head) |-> head[i] * tail[i]])

StatsInit ==
    /\ EnvEmpty /\ CfgIdle /\ FramesIdle /\ DriverIdle /\ SharedIdle /\ IirIdle /\ LoopsIdle
    /\ st_x \in UNION {[1..len -> StatsValues] : len \in 1..MaxStatsLen}
    /\ st_ref = <<>>

\* One iteration of the comprehension: k = len(ref so far).
RefNextLag ==
    /\ Len(st_ref) < Len(st_x)
    /\ st_ref' = Append(st_ref, autocorr_ref(st_x, Len(st_ref)))
    /\ UNCHANGED <<st_x, cfgvars, frvars, drvars, shvars, fnvars>>

StatsNext == RefNextLag

SpecStats == StatsInit /\ [][StatsNext]_vars

(***************************************************************************)
(* Samples, subject output and its decoding                                *)
(*                                                                         *)
(* A sample is <<re, im>> in millionths (im = 0 for a real one).  A line   *)
(* of subject output is the sequence of its comma-separated fields; a      *)
(* field is a number or text that float() rejects.                         *)
(***************************************************************************)
Micro == 1000 * 1000

Abs(a) == IF a < 0 THEN 0 - a ELSE a
Min(a, b) == IF a <= b THEN a ELSE b
Max(a, b) == IF a >= b THEN a ELSE b

Num(v) == [num |-> TRUE, v |-> v]
Garbage == [num |-> FALSE, v |-> 0]

FieldCount(kind) == IF kind = "complex" THEN 2 ELSE 1

GoodLine(z, kind) == IF kind = "complex" THEN <<Num(z[1]), Num(z[2])>> ELSE <<Num(z[1])>>

\* The text a subject prints for the samples vals.
Encode(vals, kind) == [i \in 1..Len(vals) |-> GoodLine(vals[i], kind)]

\* A line is malformed when a field is not numeric or the field count is wrong.
MalformedLine(line, kind) ==
    \/ Len(line) # FieldCount(kind)
    \/ \E j \in 1..Len(line) : ~line[j].num

Malformed(out, kind) == \E i \in 1..Len(out) : MalformedLine(out[i], kind)

\* np.array(list(map(float, lines))) and [float(s) for s in ...]: float(line)
\* of every line; a line with a comma or with other text raises ValueError.
parse_real(lines) ==
    IF \E i \in 1..Len(lines) : Len(lines[i]) # 1 \/ ~lines[i][1].num
    THEN [exc |-> "ValueError", val |-> <<>>]
    ELSE [exc |-> "none", val |-> [i \in 1..Len(lines) |-> <<lines[i][1].v, 0>>]]

\* parse_complex_lines: float of every field of every line (ValueError), the rows
\* made one array (ValueError when they differ in length), then columns 0 and 1
\* (IndexError when there is no such column); further columns are not read.
parse_complex_lines(lines) ==
    IF \E i \in 1..Len(lines) : \E j \in 1..Len(lines[i]) : ~lines[i][j].num
    THEN [exc |-> "ValueError", val |-> <<>>]
    ELSE IF lines = <<>> THEN [exc |-> "IndexError", val |-> <<>>]
    ELSE IF \E i \in 1..Len(lines) : Len(lines[i]) # Len(lines[1])
    THEN [exc |-> "ValueError", val |-> <<>>]
    ELSE IF Len(lines[1]) < 2 THEN [exc |-> "IndexError", val |-> <<>>]
    ELSE [exc |-> "none",
          val |-> [i \in 1..Len(lines) |-> <<lines[i][1].v, lines[i][2].v>>]]

\* The first line np.fromstring cannot read to its end (0: none).
FirstUnread(lines) ==
    LET unread == {i \in 1..Len(lines) : Len(lines[i]) # 1 \/ ~lines[i][1].num}
    IN  IF unread = {} THEN 0 ELSE CHOOSE i \in unread : \A j \in unread : i <= j

\* np.fromstring(text, sep='\n'): the numbers up to the first text it cannot
\* read, where it stops with a warning and returns what it has.
np_fromstring(lines) ==
    LET p == FirstUnread(lines)
        k == IF p = 0 THEN Len(lines)
             ELSE IF lines[p][1].num THEN p ELSE p - 1
    IN  [exc |-> "none", val |-> [i \in 1..k |-> <<lines[i][1].v, 0>>]]

Decode(parser, lines) ==
    CASE parser = "complex" -> parse_complex_lines(lines)
      [] parser = "real" -> parse_real(lines)
      [] parser = "fromstring" -> np_fromstring(lines)

(***************************************************************************)
(* numpy.testing.assert_allclose                                           *)
(***************************************************************************)
\* A tolerance in millionths.
TolMicro(d) ==
    IF d.e >= -6 THEN d.m * Pow10(d.e + 6) ELSE d.m \div Pow10(0 - 6 - d.e)

\* |z| of a sample lying on one of the axes (every sample of the model does).
CAbs(z) == CASE z[2] = 0 -> Abs(z[1]) [] z[1] = 0 -> Abs(z[2])

CSub(a, b) == <<a[1] - b[1], a[2] - b[2]>>

\* |a - b| <= atol + rtol * |b|, in millionths.
Close(a, b, rt, at) ==
    CAbs(CSub(a, b)) <= TolMicro(at) + (TolMicro(rt) * (CAbs(b) \div 1000)) \div 1000

\* TRUE when assert_allclose(y, ref, rtol, atol) raises nothing: equal shapes and
\* every element close.
assert_allclose(yy, rr, rt, at) ==
    /\ Len(yy) = Len(rr)
    /\ \A i \in 1..Len(yy) : Close(yy[i], rr[i], rt, at)

\* The floor of the square root, by bisection on lo..hi.
RECURSIVE SqrtBetween(_, _, _)
SqrtBetween(a, lo, hi) ==
    IF lo >= hi THEN lo
    ELSE LET mid == (lo + hi + 1) \div 2
         IN  IF mid * mid <= a THEN SqrtBetween(a, mid, hi)
             ELSE SqrtBetween(a, lo, mid - 1)

\* np.sqrt(np.mean(v**2)) of real samples, in thousandths.
Rms(v) ==
    LET sq == SeqSum([i \in 1..Len(v) |-> (v[i][1] \div 1000) * (v[i][1] \div 1000)])
    IN  SqrtBetween(sq \div Len(v), 0, 40000)

(***************************************************************************)
(* Signals and reference results                                           *)
(*                                                                         *)
(* The seeded generators and the library transforms (numpy.fft,            *)
(* scipy.signal) are outside the repository: a generator is a fixed        *)
(* function of its seed and length, a library transform a fixed function   *)
(* of its input.  The references the drivers compute themselves (linear    *)
(* interpolation, autocorrelation) are computed as the code computes them. *)
(***************************************************************************)
StatsN == 128
ZoomM == 64
num_taps == 33
SKIP_CODE == 77

dct_lengths == <<7, 8, 63, 64, 257>>

\* rng.standard_normal(len) and the like: whole units, one of -1, 0, 1.
Signal(kind, seed, len) ==
    [i \in 1..len |->
        LET v == (((2 * i + seed) % 3) - 1) * Micro
        IN  IF kind = "complex" /\ i % 2 = 0 THEN <<0, v>> ELSE <<v, 0>>]

\* A library transform of xx with count outputs.
Transform(xx, count, kind) ==
    [i \in 1..count |->
        LET z == xx[((i - 1) % Len(xx)) + 1]
        IN  IF kind = "complex" THEN <<z[2], z[1]>> ELSE <<0 - (z[1] + z[2]), 0>>]

\* The coefficients vv_dsp_dump_fir_coeffs prints when it is right.
fir_coeffs == [i \in 1..num_taps |-> <<((i % 3) - 1) * Micro, 0>>]

\* lfilter(h, [1.0], x), as a fixed function of h and x.
FirFiltered(hh, xx) ==
    [i \in 1..Len(xx) |->
        <<(IF hh = <<>> THEN 0 ELSE hh[1][1]) - xx[i][1], 0>>]

Clip(i, lo, hi) == IF i < lo THEN lo ELSE IF i > hi THEN hi ELSE i

\* Lines 46-52 of test_resampler.py: expect = floor((len(x) - 1) * 2.0) + 1 samples,
\* each the linear interpolation of x at index j / 2, clamped (j from 0).
resample_ref(xx) ==
    LET expect == (Len(xx) - 1) * 2 + 1
    IN  [jj \in 1..expect |->
            LET j == jj - 1
                i0 == j \div 2
                i0c == Clip(i0, 0, Len(xx) - 1) + 1
                i1c == Clip(i0 + 1, 0, Len(xx) - 1) + 1
            IN  IF j % 2 = 0 THEN <<xx[i0c][1], 0>>
                ELSE <<(xx[i0c][1] + xx[i1c][1]) \div 2, 0>>]

\* Line 25 of test_stats.py for every k, in millionths.
stats_ref(xx) ==
    LET xu == [i \in 1..Len(xx) |-> xx[i][1] \div Micro]
    IN  [kk \in 1..Len(xx) |->
            LET r == autocorr_ref(xu, kk - 1) IN <<(r.num * Micro) \div r.den, 0>>]

\* The reference result of command cmd on signal xx (hh: the FIR coefficients).
Reference(cmd, xx, hh) ==
    CASE cmd = "czt_dft" -> Transform(xx, args_m, "complex")
      [] cmd = "czt_zoom" -> Transform(xx, ZoomM, "complex")
      [] cmd = "fft_c2c" -> Transform(xx, Len(xx), "complex")
      [] cmd = "fft_r2c" -> Transform(xx, (Len(xx) \div 2) + 1, "complex")
      [] cmd = "fft_c2r" -> xx
      [] cmd = "fir_coeffs" -> fir_coeffs
      [] cmd = "fir" -> FirFiltered(hh, xx)
      [] cmd = "iir" -> Transform(xx, Len(xx), "real")
      [] cmd = "resample" -> resample_ref(xx)
      [] cmd = "stats" -> stats_ref(xx)
      [] cmd = "stft" -> Transform(xx, Len(xx), "real")
      [] cmd = "dct_fwd" -> Transform(xx, Len(xx), "real")
      [] cmd = "dct_inv" -> xx

(***************************************************************************)
(* What a subject executable may print.  The subject is opaque: besides    *)
(* the text a correct one prints, the model tries that text with one       *)
(* defect of each kind.                                                    *)
(***************************************************************************)
\* A sample moved by d along the axis it lies on.
Shifted(z, d) == IF z[2] # 0 THEN <<z[1], z[2] + d>> ELSE <<z[1] + d, z[2]>>

\* Deviations: 1e-3 and 2.0.
Deviations == {1000, 2 * Micro}

Variants(vals, kind) ==
    LET good == Encode(vals, kind)
        L == Len(vals)
    IN  {good, Append(good, GoodLine(<<0, 0>>, kind)), Append(good, <<Garbage>>),
         Encode([i \in 1..L |-> <<0 - vals[i][1], 0 - vals[i][2]>>], kind)}
        \cup (IF L = 0 THEN {}
              ELSE {Encode([vals EXCEPT ![1] = Shifted(@, d)], kind) : d \in Deviations}
                   \cup {Encode([vals EXCEPT ![L] = Shifted(@, d)], kind) : d \in Deviations}
                   \cup {SubSeq(good, 1, L - 1), <<>>,
                         [good EXCEPT ![1] = <<Garbage>> \o Tail(@)],
                         [i \in 1..L |-> Append(good[i], Num(0))],
                         [good EXCEPT ![L] = Append(@, Num(0))],
                         [good EXCEPT ![L] = Append(@, Garbage)]})

\* The outputs tried for the coefficient dump: right, deviating, cut short, garbage.
FewVariants(vals, kind) ==
    LET good == Encode(vals, kind)
    IN  {good, Append(good, <<Garbage>>), SubSeq(good, 1, Len(vals) - 1),
         Encode([vals EXCEPT ![1] = Shifted(@, 2 * Micro)], kind)}

\* What a subject that ends with a non-zero status has printed by then.
PartialOutputs(vals, kind) ==
    {Encode(vals, kind), Encode(SubSeq(vals, 1, Len(vals) \div 2), kind)}

\* Exit statuses of a subject: success, failure, the skip code, killed by a signal.
ReturnCodes == {0, 1, SKIP_CODE, -9}

\* The status the operating system reports for sys.exit(code).
ExitStatus(code) == code % 256

(***************************************************************************)
(* The drivers, each as the sequence of its statements.                    *)
(***************************************************************************)
Families == {"czt", "dct", "fft", "filters", "framing", "resampler", "stats", "stft"}
Packages == {"numpy", "scipy", "librosa"}

\* The drivers that take the signal length as -n.
TakesN == {"czt", "fft", "filters", "resampler", "stft"}

NoLit == [set |-> FALSE, val |-> NoDec]
Lit(d) == [set |-> TRUE, val |-> d]

OpImport(pkg) == [op |-> "import", pkg |-> pkg]
OpReadTolerances(dr, da) == [op |-> "read_tolerances", rtol |-> dr, atol |-> da]
OpArgsTolerances(dr, da) == [op |-> "args_tolerances", rtol |-> dr, atol |-> da]
OpFloatEnvOr(var, name, d) == [op |-> "float_env_or", var |-> var, name |-> name, dflt |-> d]
OpGen(kind, seed, len) == [op |-> "gen", kind |-> kind, seed |-> seed, len |-> len]
OpWrite(file, src, kind) == [op |-> "write", file |-> file, src |-> src, kind |-> kind]
OpRun(cmd, kind, style) == [op |-> "run", cmd |-> cmd, kind |-> kind, style |-> style]
OpParse(parser) == [op |-> "parse", parser |-> parser]
OpRef(cmd) == [op |-> "ref", cmd |-> cmd]
OpCompare(mode, against, atol_lit) ==
    [op |-> "compare", mode |-> mode, against |-> against, atol_lit |-> atol_lit]
Op(name) == [op |-> name]

TempName == "tempfile"

test_czt(nn) ==
    << Op("ensure_numpy_scipy"), OpImport("numpy"), OpImport("scipy"),
       OpReadTolerances(Dec(FALSE, 2, -4), Dec(FALSE, 2, -4)),
       OpGen("complex", 0, nn),
       OpWrite("tmp_czt_in.txt", "x", "complex"),
       OpRun("czt_dft", "complex", "check"),
       OpParse("complex"),
       OpRef("czt_dft"),
       OpCompare("plain", "ref", NoLit),
       OpGen("real", 1, nn),
       OpWrite("tmp_czt_in_real.txt", "x", "real"),
       OpRun("czt_zoom", "complex", "check"),
       OpParse("complex"),
       OpRef("czt_zoom"),
       OpCompare("plain", "ref", NoLit),
       Op("print_ok"), Op("exit0") >>

\* [bin_path, "--type", str(t), "--dir", direction, "-n", str(n), "--infile", fname]
OpRunDct(nn, t, direction) ==
    [op |-> "run", cmd |-> IF direction = "fwd" THEN "dct_fwd" ELSE "dct_inv",
     kind |-> "real", style |-> "check", N |-> nn, type |-> t]

\* run_dump with the inverse fed the signal itself instead of the forward output.
RoundTripsSkippingForward(nn, seed) ==
    << OpGen("real", seed, nn),
       OpWrite(TempName, "x", "real"), OpRunDct(nn, 2, "fwd"), OpParse("real"), Op("unlink"),
       OpWrite(TempName, "x", "real"), OpRunDct(nn, 2, "inv"), OpParse("real"), Op("unlink"),
       OpCompare("plain", "x", Lit(Dec(FALSE, 1, -4))),
       OpWrite(TempName, "x", "real"), OpRunDct(nn, 4, "fwd"), OpParse("real"), Op("unlink"),
       OpWrite(TempName, "x", "real"), OpRunDct(nn, 4, "inv"), OpParse("real"), Op("unlink"),
       OpCompare("plain", "x", Lit(Dec(FALSE, 1, -4))) >>

\* run_dump(bin, n, t, direction, src): temporary file, subject, decoding, unlink.
run_dump(nn, t, direction, src) ==
    << OpWrite(TempName, src, "real"),
       OpRunDct(nn, t, direction),
       OpParse("real"),
       Op("unlink") >>

\* One pass of the loop of test_dct.main for length nn: type 2, then type 4.
dct_round_trips(nn, seed) ==
    << OpGen("real", seed, nn) >>
    \o run_dump(nn, 2, "fwd", "x") \o run_dump(nn, 2, "inv", "y")
    \o << OpCompare("plain", "x", Lit(Dec(FALSE, 1, -4))) >>
    \o run_dump(nn, 4, "fwd", "x") \o run_dump(nn, 4, "inv", "y")
    \o << OpCompare("plain", "x", Lit(Dec(FALSE, 1, -4))) >>

RECURSIVE dct_loop(_)
dct_loop(i) ==
    IF i > Len(dct_lengths) THEN <<>>
    ELSE dct_round_trips(dct_lengths[i], i) \o dct_loop(i + 1)

test_dct ==
    << OpImport("numpy"), Op("try_import_scipy"), Op("skip_unless_scipy"),
       OpFloatEnvOr("rtol", "VV_PY_RTOL", Dec(FALSE, 1, -6)),
       OpFloatEnvOr("atol", "VV_PY_ATOL", Dec(FALSE, 1, -6)) >>
    \o dct_loop(1)
    \o << Op("print_ok"), Op("exit0") >>

test_fft(nn) ==
    << Op("ensure_numpy_scipy"), OpImport("numpy"),
       OpArgsTolerances(Dec(FALSE, 5, -5), Dec(FALSE, 5, -5)),
       OpGen("complex", 0, nn),
       OpWrite("tmp_c2c_in.txt", "x", "complex"),
       OpRun("fft_c2c", "complex", "check"),
       OpParse("complex"),
       OpRef("fft_c2c"),
       OpCompare("plain", "ref", NoLit),
       OpGen("real", 1, nn),
       OpWrite("tmp_r2c_in.txt", "x", "real"),
       OpRun("fft_r2c", "complex", "check"),
       OpParse("complex"),
       OpRef("fft_r2c"),
       OpCompare("plain", "ref", NoLit),
       OpWrite("tmp_c2r_in.txt", "X", "complex"),
       OpRun("fft_c2r", "real", "check"),
       OpParse("real"),
       OpRef("fft_c2r"),
       OpCompare("plain", "ref", NoLit),
       Op("print_ok"), Op("exit0") >>

test_filters(nn) ==
    << Op("ensure_numpy_scipy"), OpImport("numpy"), OpImport("scipy"),
       OpArgsTolerances(Dec(FALSE, 3, -3), Dec(FALSE, 3, -3)),
       OpGen("real", 1, nn),
       OpWrite("tmp_fir_in.txt", "x", "real"),
       OpRun("fir_coeffs", "real", "check"),
       OpWrite("tmp_fir_coeffs.txt", "out", "real"),
       OpRun("fir", "real", "check"),
       OpParse("real"),
       Op("loadtxt"),
       OpRef("fir"),
       OpCompare("plain", "ref", NoLit),
       OpWrite("tmp_iir_in.txt", "x", "real"),
       OpRun("iir", "real", "check"),
       OpParse("real"),
       OpRef("iir"),
       OpCompare("plain", "ref", NoLit),
       Op("print_ok"), Op("exit0") >>

test_resampler(nn) ==
    << Op("ensure_numpy_scipy"), OpImport("numpy"),
       OpArgsTolerances(Dec(FALSE, 5, -2), Dec(FALSE, 5, -2)),
       OpGen("real", 3, nn),
       OpWrite("tmp_resamp_in.txt", "x", "real"),
       OpRun("resample", "real", "check"),
       OpParse("real"),
       OpRef("resample"),
       OpParse("real"),
       OpCompare("min_truncate", "ref", NoLit),
       Op("print_ok"), Op("exit0") >>

test_stats ==
    << OpImport("numpy"), Op("ensure_numpy_scipy"),
       OpReadTolerances(Dec(FALSE, 1, -4), Dec(FALSE, 1, -4)),
       OpGen("real", 0, StatsN),
       OpRef("stats"),
       OpRun("stats", "real", "returncode"),
       OpParse("fromstring"),
       OpCompare("plain", "ref", NoLit),
       Op("print_ok"), Op("exit0") >>

test_stft(nn) ==
    << Op("ensure_numpy_scipy"), OpImport("numpy"),
       OpReadTolerances(Dec(FALSE, 5, -2), Dec(FALSE, 5, -2)),
       OpGen("real", 2, nn),
       OpWrite("tmp_stft_in.txt", "x", "real"),
       OpRun("stft", "real", "check"),
       OpParse("real"),
       OpRef("stft"),
       OpCompare("stft", "ref", NoLit),
       Op("print_ok"), Op("exit0") >>

test_framing ==
    << Op("ensure_numpy_scipy"), OpImport("numpy"), Op("ensure_librosa"),
       OpImport("librosa"),
       OpReadTolerances(Dec(FALSE, 1, -5), Dec(FALSE, 1, -6)),
       Op("test_get_num_frames"),
       Op("test_overlap_add_reconstruction"),
       Op("exit0") >>

Program(fam, nn) ==
    CASE fam = "czt" -> test_czt(nn)
      [] fam = "dct" -> test_dct
      [] fam = "fft" -> test_fft(nn)
      [] fam = "filters" -> test_filters(nn)
      [] fam = "framing" -> test_framing
      [] fam = "resampler" -> test_resampler(nn)
      [] fam = "stats" -> test_stats
      [] fam = "stft" -> test_stft(nn)

(***************************************************************************)
(* A driver run.  Every action is one statement of the driver; a statement *)
(* that raises ends the driver in the same step (nothing catches, except   *)
(* where the code says so), with status 1 and test_dct's temporary file    *)
(* unlinked by run_dump's finally.                                         *)
(***************************************************************************)
\* Environments a driver is run in: each tolerance absent, empty, malformed or set.
DriverRtolValues == {Unset, SetTo(<<>>), SetTo(<<"x">>), SetTo(<<"1", "e", "-", "2">>)}
DriverAtolValues == {Unset, SetTo(<<"x">>), SetTo(<<"0", ".", "5">>)}

\* VV_PY_VERBOSE: absent or on, for the driver whose control flow reads it.
DriverVerboseValues(fam) ==
    IF fam = "stft" THEN {Unset, SetTo(<<"1">>)} ELSE {Unset}

Init ==
    /\ CfgIdle /\ FramesIdle /\ StatsIdle /\ SharedIdle /\ IirIdle /\ LoopsIdle
    /\ family \in Families
    /\ \E r \in DriverRtolValues, a \in DriverAtolValues,
          v \in DriverVerboseValues(family) :
          env = [nm \in EnvNames |->
                    CASE nm = "VV_PY_RTOL" -> r [] nm = "VV_PY_ATOL" -> a
                      [] nm = "VV_PY_VERBOSE" -> v]
    /\ env0 = env
    /\ have \in [Packages -> BOOLEAN]
    /\ n \in (IF family \in TakesN THEN 1..MaxN ELSE {1})
    /\ args_m \in (IF family = "czt" THEN 1..MaxN ELSE {1})
    /\ DriverFresh

Prog == Program(family, n)
Running == family \in Families /\ ~exit.done /\ pc <= Len(Prog)
Instr == Prog[pc]
At(op) == Running /\ Instr.op = op

Without(f, name) == [nm \in (DOMAIN f) \ {name} |-> f[nm]]
With(f, name, content) ==
    [nm \in (DOMAIN f) \cup {name} |-> IF nm = name THEN content ELSE f[nm]]

\* The statement is done; on to the next.
Advance ==
    /\ pc' = pc + 1
    /\ exit' = exit
    /\ log' = Append(log, Instr.op)

\* The driver ends here with status code.
Exits(code, why) ==
    /\ pc' = pc
    /\ exit' = [done |-> TRUE, code |-> ExitStatus(code), why |-> why]
    /\ log' = Append(log, Instr.op)

\* An exception nothing catches: traceback, status 1 (test_framing.main returns 1).
Raises(exc) == Exits(1, exc)

\* run_dump's finally, when an exception passes through it.
FilesAfterRaise == IF family = "dct" THEN Without(files, TempName) ELSE files

\* import pkg, outside any try.
Import ==
    /\ At("import")
    /\ IF have[Instr.pkg] THEN Advance ELSE Raises("ImportError")
    /\ UNCHANGED <<family, have, n, args_m, call, HAVE_SCIPY, x, y, h, ref, proc, rtol, atol, files,
                   failed_at, bad_output, cmp, cfgvars, frvars, stvars, shvars, fnvars>>

\* common.ensure_numpy_scipy: both imports in one try.
ensure_numpy_scipy == have["numpy"] /\ have["scipy"]

\* if not ensure_numpy_scipy(): sys.exit(SKIP_CODE)
EnsureNumpyScipy ==
    /\ At("ensure_numpy_scipy")
    /\ IF ensure_numpy_scipy THEN Advance ELSE Exits(SKIP_CODE, "skip")
    /\ UNCHANGED <<family, have, n, args_m, call, HAVE_SCIPY, x, y, h, ref, proc, rtol, atol, files,
                   failed_at, bad_output, cmp, cfgvars, frvars, stvars, shvars, fnvars>>

\* test_framing.py: if not ensure_librosa(): sys.exit(SKIP_CODE)
EnsureLibrosa ==
    /\ At("ensure_librosa")
    /\ IF have["librosa"] THEN Advance ELSE Exits(SKIP_CODE, "skip")
    /\ UNCHANGED <<family, have, n, args_m, call, HAVE_SCIPY, x, y, h, ref, proc, rtol, atol, files,
                   failed_at, bad_output, cmp, cfgvars, frvars, stvars, shvars, fnvars>>

\* test_dct.py: try: from scipy.fft import ...; HAVE_SCIPY = True / False
TryImportScipy ==
    /\ At("try_import_scipy")
    /\ HAVE_SCIPY' = have["scipy"]
    /\ Advance
    /\ UNCHANGED <<family, have, n, args_m, call, x, y, h, ref, proc, rtol, atol, files,
                   failed_at, bad_output, cmp, cfgvars, frvars, stvars, shvars, fnvars>>

\* test_dct.main: if not HAVE_SCIPY: maybe_skip(...)
SkipUnlessScipy ==
    /\ At("skip_unless_scipy")
    /\ IF HAVE_SCIPY THEN Advance ELSE Exits(77, "skip")
    /\ UNCHANGED <<family, have, n, args_m, call, HAVE_SCIPY, x, y, h, ref, proc, rtol, atol, files,
                   failed_at, bad_output, cmp, cfgvars, frvars, stvars, shvars, fnvars>>

\* rtol, atol = read_tolerances(default_rtol, default_atol)
ReadTolerances ==
    /\ At("read_tolerances")
    /\ \E dr \in {Instr.rtol}, da \in {Instr.atol} :
          LET r == read_tolerances(dr, da)
          IN  IF r.exc = "none"
              THEN /\ rtol' = r.rtol
                   /\ atol' = r.atol
                   /\ Advance
              ELSE /\ Raises(r.exc)
                   /\ UNCHANGED <<rtol, atol>>
    /\ UNCHANGED <<family, have, n, args_m, call, HAVE_SCIPY, x, y, h, ref, proc, files,
                   failed_at, bad_output, cmp, cfgvars, frvars, stvars, shvars, fnvars>>

\* The tolerances are args.rtol and args.atol: the defaults of the command line.
ArgsTolerances ==
    /\ At("args_tolerances")
    /\ rtol' = Instr.rtol
    /\ atol' = Instr.atol
    /\ Advance
    /\ UNCHANGED <<family, have, n, args_m, call, HAVE_SCIPY, x, y, h, ref, proc, files,
                   failed_at, bad_output, cmp, cfgvars, frvars, stvars, shvars, fnvars>>

\* float(os.environ.get(name) or default): [exc, val].
float_env_or(name, default) ==
    LET v == getenv(name)
    IN  IF ~v.set \/ v.val = <<>> THEN [exc |-> "none", val |-> default]
        ELSE PyFloat(v.val)

\* test_dct.main, lines 40 and 41.
FloatEnvOr ==
    /\ At("float_env_or")
    /\ LET r == float_env_or(Instr.name, Instr.dflt)
       IN  IF r.exc = "none"
           THEN /\ rtol' = IF Instr.var = "rtol" THEN r.val ELSE rtol
                /\ atol' = IF Instr.var = "atol" THEN r.val ELSE atol
                /\ Advance
           ELSE /\ Raises(r.exc)
                /\ UNCHANGED <<rtol, atol>>
    /\ UNCHANGED <<family, have, n, args_m, call, HAVE_SCIPY, x, y, h, ref, proc, files,
                   failed_at, bad_output, cmp, cfgvars, frvars, stvars, shvars, fnvars>>

\* x = rng...(n), or the closed-form signal.
Generate ==
    /\ At("gen")
    /\ x' = Signal(Instr.kind, Instr.seed, Instr.len)
    /\ Advance
    /\ UNCHANGED <<family, have, n, args_m, call, HAVE_SCIPY, y, h, ref, proc, rtol, atol, files,
                   failed_at, bad_output, cmp, cfgvars, frvars, stvars, shvars, fnvars>>

\* np.savetxt(file, ...), f.write(...): the exchange file is (over)written.
WriteFile ==
    /\ At("write")
    /\ LET content ==
               CASE Instr.src = "x" -> Encode(x, Instr.kind)
                 [] Instr.src = "y" -> Encode(y, Instr.kind)
                 [] Instr.src = "X" -> Encode(Reference("fft_r2c", x, h), Instr.kind)
                 [] Instr.src = "out" -> proc.out
       IN  files' = With(files, Instr.file, content)
    /\ Advance
    /\ UNCHANGED <<family, have, n, args_m, call, HAVE_SCIPY, x, y, h, ref, proc, rtol, atol,
                   failed_at, bad_output, cmp, cfgvars, frvars, stvars, shvars, fnvars>>

\* run_dump's finally on the way out: os.unlink(fname).
Unlink ==
    /\ At("unlink")
    /\ files' = Without(files, TempName)
    /\ Advance
    /\ UNCHANGED <<family, have, n, args_m, call, HAVE_SCIPY, x, y, h, ref, proc, rtol, atol,
                   failed_at, bad_output, cmp, cfgvars, frvars, stvars, shvars, fnvars>>

(***************************************************************************)
(* The parameters of a step, as they go to the subject's command line and  *)
(* to the reference call.  An angle is a fraction of a turn; a complex     *)
(* number is its two parts, each a number or the cosine / sine of an angle.*)
(***************************************************************************)
fs == 48000
cutoff == [m |-> 25, e |-> -2]
f_start == 800
f_end == 1200

RECURSIVE Gcd(_, _)
Gcd(a, b) == IF b = 0 THEN a ELSE Gcd(b, a % b)

\* num/den of a turn (den > 0), in lowest terms.
Turn(num, den) ==
    [num |-> num \div Gcd(Abs(num), den), den |-> den \div Gcd(Abs(num), den)]

\* A complex number given by its parts.
Complex(re, im) == [re |-> <<"num", re>>, im |-> <<"num", im>>]

\* np.cos(ang), np.sin(ang) as the pair of parts of a complex number.
CosSin(t) == [re |-> <<"cos", t>>, im |-> <<"sin", t>>]

\* np.exp(1j * ang) = cos(ang) + 1j * sin(ang).
ExpJ(t) == CosSin(t)

\* test_czt.py line 58: ang = -2 * np.pi / args.n
dft_ang(nn) == Turn(-1, nn)

\* test_czt.py lines 89-91: delta = (f_end - f_start) / M, W = exp(-1j 2 pi delta / fs),
\* A = exp(-1j 2 pi f_start / fs)
zoom_W == ExpJ(Turn(0 - (f_end - f_start), ZoomM * fs))
zoom_A == ExpJ(Turn(0 - f_start, fs))

\* What the command line of the subject carries.
SubjectParams(cmd, nn, mm) ==
    CASE cmd = "czt_dft" ->
           [cmd |-> cmd, N |-> nn, M |-> mm, W |-> CosSin(dft_ang(nn)),
            A |-> Complex(1, 0), infile |-> "tmp_czt_in.txt"]
      [] cmd = "czt_zoom" ->
           [cmd |-> cmd, N |-> nn, M |-> ZoomM, W |-> [re |-> zoom_W.re, im |-> zoom_W.im],
            A |-> [re |-> zoom_A.re, im |-> zoom_A.im], infile |-> "tmp_czt_in_real.txt"]
      [] cmd \in {"dct_fwd", "dct_inv"} ->
           [cmd |-> cmd, N |-> Instr.N, type |-> Instr.type, input |-> files[TempName]]
      [] cmd = "fir_coeffs" ->
           [cmd |-> cmd, num_taps |-> num_taps, cutoff |-> cutoff, win |-> "hann"]
      [] cmd = "fir" ->
           [cmd |-> cmd, num_taps |-> num_taps, cutoff |-> cutoff, win |-> "hann",
            N |-> nn, infile |-> "tmp_fir_in.txt"]
      [] OTHER -> [cmd |-> cmd]

\* A reference that takes as many output points as the signal has samples.
ReferenceParamsSquare(cmd, xx, nn, mm) ==
    [cmd |-> cmd, N |-> Len(xx), M |-> Len(xx), W |-> ExpJ(dft_ang(nn)),
     A |-> Complex(1, 0)]

\* What the reference call is given: czt(x, m=..., w=..., a=...) on the signal xx.
ReferenceParams(cmd, xx, nn, mm) ==
    CASE cmd = "czt_dft" ->
           [cmd |-> cmd, N |-> Len(xx), M |-> mm, W |-> ExpJ(dft_ang(nn)),
            A |-> Complex(1, 0)]
      [] cmd = "czt_zoom" ->
           [cmd |-> cmd, N |-> Len(xx), M |-> ZoomM, W |-> zoom_W, A |-> zoom_A]
      [] cmd = "fir" -> [cmd |-> cmd, coeffs |-> h]
      [] OTHER -> [cmd |-> cmd]

\* The coefficients a FIR subject may design from --num-taps, --cutoff, --win: those
\* of a right design, or others.
OtherDesign == [fir_coeffs EXCEPT ![1] = Shifted(@, 2 * Micro)]

SubjectDesigns(cmd) == IF cmd = "fir" THEN {fir_coeffs, OtherDesign} ELSE {<<>>}

\* The real samples a file of well-formed lines holds.
FileSamples(name) == [i \in 1..Len(files[name]) |-> <<files[name][i][1].v, 0>>]

\* The signal a subject reads: the DCT subject whatever its temporary file holds,
\* the others the signal written for them.
SubjectInput(cmd) ==
    IF cmd \in {"dct_fwd", "dct_inv"} THEN FileSamples(TempName) ELSE x

\* What a right subject prints for the signal xx it read.
RightOutput(cmd, xx) ==
    IF cmd = "dct_inv" THEN Transform(xx, Len(xx), "real")
    ELSE Reference(cmd, xx, fir_coeffs)

\* What a subject that filters with hs may print when it ends with status rc.
SubjectOutputs(cmd, kind, rc, hs) ==
    IF cmd = "fir" /\ hs # fir_coeffs
    THEN IF rc = 0 THEN {Encode(FirFiltered(hs, x), kind)}
         ELSE PartialOutputs(FirFiltered(hs, x), kind)
    ELSE IF rc # 0 THEN PartialOutputs(RightOutput(cmd, SubjectInput(cmd)), kind)
    ELSE IF cmd = "fir_coeffs" THEN FewVariants(RightOutput(cmd, SubjectInput(cmd)), kind)
    ELSE Variants(RightOutput(cmd, SubjectInput(cmd)), kind)

\* A subject invocation that ends non-zero is let through.
RunOutcomeIgnoresFailure(style, rc) == [stop |-> FALSE, code |-> 0, why |-> ""]

\* What the driver does with the subject's exit status rc: check=True and
\* check_output raise CalledProcessError; test_stats.py exits with rc itself.
run_outcome(style, rc) ==
    IF rc = 0 THEN [stop |-> FALSE, code |-> 0, why |-> ""]
    ELSE IF style = "check" THEN [stop |-> TRUE, code |-> 1, why |-> "CalledProcessError"]
    ELSE [stop |-> TRUE, code |-> rc, why |-> "sys.exit(proc.returncode)"]

\* subprocess.run / check_output: the subject runs to its end, with any status
\* and any of the outputs tried.
RunSubject ==
    /\ At("run")
    /\ \E rc \in ReturnCodes, hs \in SubjectDesigns(Instr.cmd) :
         \E out \in SubjectOutputs(Instr.cmd, Instr.kind, rc, hs) :
            /\ proc' = [rc |-> rc, out |-> out, coeffs |-> hs]
            /\ call' = [call EXCEPT !.sub = SubjectParams(Instr.cmd, n, args_m),
                                    !.prev = [params |-> call.sub, out |-> proc.out]]
            /\ failed_at' = IF rc # 0 THEN Len(log) + 1 ELSE failed_at
            /\ bad_output' = (bad_output \/ (rc = 0 /\ Malformed(out, Instr.kind)))
            /\ LET o == run_outcome(Instr.style, rc)
               IN  IF o.stop
                   THEN Exits(o.code, o.why) /\ files' = FilesAfterRaise
                   ELSE Advance /\ files' = files
    /\ UNCHANGED <<family, have, n, args_m, HAVE_SCIPY, x, y, h, ref, rtol, atol,
                   cmp, cfgvars, frvars, stvars, shvars, fnvars>>

\* The subject's output decoded into y.
ParseOutput ==
    /\ At("parse")
    /\ LET r == Decode(Instr.parser, proc.out)
       IN  IF r.exc = "none"
           THEN y' = r.val /\ Advance /\ files' = files
           ELSE y' = y /\ Raises(r.exc) /\ files' = FilesAfterRaise
    /\ UNCHANGED <<family, have, n, args_m, call, HAVE_SCIPY, x, h, ref, proc, rtol, atol,
                   failed_at, bad_output, cmp, cfgvars, frvars, stvars, shvars, fnvars>>

\* h = np.loadtxt(coeff_path): one number a line, ValueError otherwise.
LoadTxt ==
    /\ At("loadtxt")
    /\ LET r == parse_real(files["tmp_fir_coeffs.txt"])
       IN  IF r.exc = "none"
           THEN h' = r.val /\ Advance
           ELSE h' = h /\ Raises(r.exc)
    /\ UNCHANGED <<family, have, n, args_m, call, HAVE_SCIPY, x, y, ref, proc, rtol, atol, files,
                   failed_at, bad_output, cmp, cfgvars, frvars, stvars, shvars, fnvars>>

\* The reference result of the step.
ComputeReference ==
    /\ At("ref")
    /\ ref' = Reference(Instr.cmd, x, h)
    /\ call' = [call EXCEPT !.ref = ReferenceParams(Instr.cmd, x, n, args_m)]
    /\ Advance
    /\ UNCHANGED <<family, have, n, args_m, HAVE_SCIPY, x, y, h, proc, rtol, atol, files,
                   failed_at, bad_output, cmp, cfgvars, frvars, stvars, shvars, fnvars>>

Take(sq, k) == SubSeq(sq, 1, Min(k, Len(sq)))

\* np.max(np.abs(y - ref)) of the verbose branch raises ValueError: the shapes do
\* not broadcast (they differ and neither is 1) or the difference is empty.
MaxAbsDiffRaises(ly, lr) == (ly # lr /\ ly # 1 /\ lr # 1) \/ ly = 0 \/ lr = 0

\* The verdict of the comparison statement: the lengths of the two sequences
\* compared, whether the driver goes on (ok), the exception when it does not,
\* whether assert_allclose passed, and whether the RMS of both was compared.
\*   plain:        assert_allclose(y, target)
\*   min_truncate: L = min(len(ref), len(y)); assert_allclose(y[:L], ref[:L])
\*   stft:         ref = ref[:len(y)]; assert_allclose, and when that raises,
\*                 the RMS of both under max(rtol, 5e-2), max(atol, 5e-2)
Verdict(mode, yy, target, rt, at, verbose) ==
    CASE mode = "plain" ->
           [ylen |-> Len(yy), reflen |-> Len(target),
            ok |-> assert_allclose(yy, target, rt, at), exc |-> "AssertionError",
            elementwise |-> assert_allclose(yy, target, rt, at), rms_tried |-> FALSE]
      [] mode = "min_truncate" ->
           LET L == Min(Len(target), Len(yy))
           IN  [ylen |-> L, reflen |-> L,
                ok |-> assert_allclose(Take(yy, L), Take(target, L), rt, at),
                exc |-> "AssertionError",
                elementwise |-> assert_allclose(Take(yy, L), Take(target, L), rt, at),
                rms_tried |-> FALSE]
      [] mode = "stft" ->
           LET r2 == Take(target, Len(yy))
               first == assert_allclose(yy, r2, rt, at)
               rt2 == Max(TolMicro(rt), 50000) \div 1000
               at2 == Max(TolMicro(at), 50000) \div 1000
               rms_ok == Abs(Rms(yy) - Rms(r2)) <= at2 + (rt2 * Rms(r2)) \div 1000
           IN  IF first
               THEN [ylen |-> Len(yy), reflen |-> Len(r2), ok |-> TRUE, exc |-> "none",
                     elementwise |-> TRUE, rms_tried |-> FALSE]
               ELSE IF verbose /\ MaxAbsDiffRaises(Len(yy), Len(r2))
               THEN [ylen |-> Len(yy), reflen |-> Len(r2), ok |-> FALSE,
                     exc |-> "ValueError", elementwise |-> FALSE, rms_tried |-> FALSE]
               ELSE [ylen |-> Len(yy), reflen |-> Len(r2), ok |-> rms_ok,
                     exc |-> "AssertionError", elementwise |-> FALSE,
                     rms_tried |-> TRUE]

\* assert_allclose(...) of the step; AssertionError ends the driver.
Compare ==
    /\ At("compare")
    /\ LET target == IF Instr.against = "x" THEN x ELSE ref
           at == IF Instr.atol_lit.set THEN Instr.atol_lit.val ELSE atol
           v == Verdict(Instr.mode, y, target, rtol, at, is_verbose(FALSE))
       IN  /\ cmp' = [rtol |-> rtol, atol |-> at, ylen |-> v.ylen, reflen |-> v.reflen,
                      ok |-> v.ok, elementwise |-> v.elementwise,
                      rms_tried |-> v.rms_tried]
           /\ IF v.ok THEN Advance ELSE Raises(v.exc)
    /\ UNCHANGED <<family, have, n, args_m, call, HAVE_SCIPY, x, y, h, ref, proc, rtol, atol, files,
                   failed_at, bad_output, cfgvars, frvars, stvars, shvars, fnvars>>

\* print('... tests passed')
PrintOk ==
    /\ At("print_ok")
    /\ Advance
    /\ UNCHANGED <<family, have, n, args_m, call, HAVE_SCIPY, x, y, h, ref, proc, rtol, atol, files,
                   failed_at, bad_output, cmp, cfgvars, frvars, stvars, shvars, fnvars>>

\* return 0 / the end of the script.
Exit0 ==
    /\ At("exit0")
    /\ Exits(0, "end")
    /\ UNCHANGED <<family, have, n, args_m, call, HAVE_SCIPY, x, y, h, ref, proc, rtol, atol, files,
                   failed_at, bad_output, cmp, cfgvars, frvars, stvars, shvars, fnvars>>

\* test_get_num_frames(verbose) inside main's try: an AssertionError is caught
\* and main returns 1.
TestGetNumFrames ==
    /\ At("test_get_num_frames")
    /\ IF \A i \in 1..Len(test_cases) : \A c \in BOOLEAN :
             n_frames_librosa(test_cases[i].signal_len, test_cases[i].frame_len,
                              test_cases[i].hop_len, c) = ExpectedOf(test_cases[i], c)
       THEN Advance
       ELSE Raises("AssertionError")
    /\ UNCHANGED <<family, have, n, args_m, call, HAVE_SCIPY, x, y, h, ref, proc, rtol, atol, files,
                   failed_at, bad_output, cmp, cfgvars, frvars, stvars, shvars, fnvars>>

\* test_overlap_add_reconstruction(verbose): create_test_signal(512); it asserts
\* nothing.
TestOverlapAdd ==
    /\ At("test_overlap_add_reconstruction")
    /\ Advance
    /\ UNCHANGED <<family, have, n, args_m, call, HAVE_SCIPY, x, y, h, ref, proc, rtol, atol, files,
                   failed_at, bad_output, cmp, cfgvars, frvars, stvars, shvars, fnvars>>

Next ==
    \/ Import \/ EnsureNumpyScipy \/ EnsureLibrosa \/ TryImportScipy \/ SkipUnlessScipy
    \/ ReadTolerances \/ ArgsTolerances \/ FloatEnvOr
    \/ Generate \/ WriteFile \/ Unlink \/ RunSubject \/ ParseOutput \/ LoadTxt
    \/ ComputeReference \/ Compare \/ PrintOk \/ Exit0
    \/ TestGetNumFrames \/ TestOverlapAdd

Spec == Init /\ [][Next]_vars

(***************************************************************************)
(* Two runs of one driver at once, in one working directory.  A run is the *)
(* driver's statements that touch exchange files: it writes an input file, *)
(* invokes the subject that reads it, and (test_dct only) unlinks it.  The *)
(* content of a file is known by the run and the statement that wrote it.  *)
(***************************************************************************)
Runs == {1, 2}

\* The temporary names NamedTemporaryFile may draw from.
NumTempNames == 2

\* The drivers that write exchange files.
FixedNameDrivers == {"czt", "fft", "filters", "resampler", "stft"}
SharedFamilies == FixedNameDrivers \cup {"dct"}

IsFileStep(st) == st.op \in {"write", "run", "unlink"}

\* The statements of the driver that write, invoke or unlink, in program order.
ShSteps(fam) == SelectSeq(Program(fam, 1), IsFileStep)

\* The file a subject is told to read ("" when it reads none).
InFile(cmd) ==
    CASE cmd = "czt_dft" -> "tmp_czt_in.txt"
      [] cmd = "czt_zoom" -> "tmp_czt_in_real.txt"
      [] cmd = "fft_c2c" -> "tmp_c2c_in.txt"
      [] cmd = "fft_r2c" -> "tmp_r2c_in.txt"
      [] cmd = "fft_c2r" -> "tmp_c2r_in.txt"
      [] cmd = "fir" -> "tmp_fir_in.txt"
      [] cmd = "iir" -> "tmp_iir_in.txt"
      [] cmd = "resample" -> "tmp_resamp_in.txt"
      [] cmd = "stft" -> "tmp_stft_in.txt"
      [] cmd \in {"dct_fwd", "dct_inv"} -> TempName
      [] OTHER -> ""

\* A name in the directory: a fixed relative path, or the i-th temporary name.
FixedPath(file) == <<file, 0>>
TempPath(i) == <<TempName, i>>
NoPath == <<"", 0>>

\* A temporary name that is handed out although a file of that name exists.
TempChoicesAny(dir) == {TempPath(i) : i \in 1..NumTempNames}

\* NamedTemporaryFile: a name no existing file has (created with O_EXCL).
TempChoices(dir) == {TempPath(i) : i \in 1..NumTempNames} \ DOMAIN dir

NoContent == [by |-> 0, at |-> 0]
FreshRun ==
    [pc |-> 1, name |-> NoPath, wrote |-> 0, fed |-> 0, read |-> NoPath, got |-> NoContent,
     ended |-> FALSE]

InitShared ==
    /\ EnvEmpty /\ CfgIdle /\ FramesIdle /\ StatsIdle /\ DriverIdle /\ IirIdle /\ LoopsIdle
    /\ sh_family \in SharedFamilies
    /\ sh_dir = <<>>
    /\ sh_run = [r \in Runs |-> FreshRun]

ShAt(r, op) ==
    /\ sh_family \in SharedFamilies
    /\ ~sh_run[r].ended
    /\ sh_run[r].pc <= Len(ShSteps(sh_family))
    /\ ShSteps(sh_family)[sh_run[r].pc].op = op

ShInstr(r) == ShSteps(sh_family)[sh_run[r].pc]

\* The path a run's statement names: its own temporary file, or the fixed path.
ShPath(r, file) == IF file = TempName THEN sh_run[r].name ELSE FixedPath(file)

\* np.savetxt(fixed name, ...) / NamedTemporaryFile(...).write(...) of run r.
ShWrite(r) ==
    /\ ShAt(r, "write")
    /\ \E path \in (IF ShInstr(r).file = TempName THEN TempChoices(sh_dir)
                    ELSE {FixedPath(ShInstr(r).file)}) :
          /\ sh_dir' = With(sh_dir, path, [by |-> r, at |-> sh_run[r].pc])
          /\ sh_run' = [sh_run EXCEPT ![r].pc = @ + 1,
                                      ![r].wrote = sh_run[r].pc,
                                      ![r].name = IF ShInstr(r).file = TempName
                                                  THEN path ELSE @]
    /\ UNCHANGED <<sh_family, cfgvars, frvars, stvars, drvars, fnvars>>

\* The subject run r invokes reads the file its command line names; a status
\* other than 0 ends the run, test_dct's finally unlinking its file first.
ShRunSubject(r) ==
    /\ ShAt(r, "run")
    /\ \E rc \in {0, 1} :
          LET file == InFile(ShInstr(r).cmd)
              path == ShPath(r, file)
              seen == IF file = "" THEN sh_run[r].got
                      ELSE IF path \in DOMAIN sh_dir THEN sh_dir[path]
                      ELSE [by |-> 0 - 1, at |-> 0]
          IN  /\ sh_run' = [sh_run EXCEPT ![r].pc = @ + 1,
                                          ![r].got = seen,
                                          ![r].fed = IF file = "" THEN @ ELSE sh_run[r].wrote,
                                          ![r].read = IF file = "" THEN @ ELSE path,
                                          ![r].ended = (rc # 0),
                                          ![r].name = IF rc # 0 THEN NoPath ELSE @]
              /\ sh_dir' = IF rc # 0 /\ sh_family = "dct"
                           THEN Without(sh_dir, sh_run[r].name) ELSE sh_dir
    /\ UNCHANGED <<sh_family, cfgvars, frvars, stvars, drvars, fnvars>>

\* run_dump's finally: os.unlink(fname).
ShUnlink(r) ==
    /\ ShAt(r, "unlink")
    /\ sh_dir' = Without(sh_dir, sh_run[r].name)
    /\ sh_run' = [sh_run EXCEPT ![r].pc = @ + 1, ![r].name = NoPath]
    /\ UNCHANGED <<sh_family, cfgvars, frvars, stvars, drvars, fnvars>>

NextShared ==
    \/ \E r \in Runs : ShWrite(r)
    \/ \E r \in Runs : ShRunSubject(r)
    \/ \E r \in Runs : ShUnlink(r)

SpecShared == InitShared /\ [][NextShared]_vars

(***************************************************************************)
(* The IIR reference of test_filters.main: lfilter(b, a, x), one output    *)
(* sample a step.  A sample is an integer count of 10^-MaxIirLen, a        *)
(* coefficient a decimal with one fractional digit, so that every sample   *)
(* of a signal no longer than MaxIirLen is computed exactly.               *)
(***************************************************************************)
MaxIirLen == 4

a1 == Dec(TRUE, 9, -1)
a2 == Dec(FALSE, 0, 0)
b0 == Dec(FALSE, 1, -1)
b1 == Dec(FALSE, 0, 0)
b2 == Dec(FALSE, 0, 0)

\* A coefficient as a count of tenths.
Tenths(d) == d.m * Pow10(d.e + 1)

NegDec(d) == [m |-> 0 - d.m, e |-> d.e]

\* The sample before the first is absent from the sums.
SampleAt(sq, i) == IF i >= 1 /\ i <= Len(sq) THEN sq[i] ELSE 0

\* The sum of c[k] * sq[i - (k - 1)] over the taps k, k + 1, ... of c (1-based).
RECURSIVE TapSum(_, _, _, _)
TapSum(c, sq, i, k) ==
    IF k > Len(c) THEN 0
    ELSE Tenths(c[k]) * SampleAt(sq, i - (k - 1)) + TapSum(c, sq, i, k + 1)

\* scipy.signal.lfilter(b, a, x) at index i, given the outputs before it:
\* a[0]*y[i] = b[0]*x[i] + b[1]*x[i-1] + ... - a[1]*y[i-1] - a[2]*y[i-2] - ...
lfilter_next(b, a, xx, yy) ==
    (TapSum(b, xx, Len(yy) + 1, 1) - TapSum(a, Append(yy, 0), Len(yy) + 1, 2))
        \div Tenths(a[1])

\* The denominator of line 77: [1.0, -a1, -a2].
iir_denominator == <<Dec(FALSE, 1, 0), NegDec(a1), NegDec(a2)>>

IirUnit == Pow10(MaxIirLen)

RECURSIVE IirSignals(_)
IirSignals(len) ==
    IF len = 0 THEN {<<>>}
    ELSE {Append(sq, v) : sq \in IirSignals(len - 1), v \in {0 - IirUnit, 0, IirUnit}}

InitIir ==
    /\ EnvEmpty /\ CfgIdle /\ FramesIdle /\ StatsIdle /\ DriverIdle /\ SharedIdle /\ LoopsIdle
    /\ \E len \in 1..MaxIirLen : ii_x \in IirSignals(len)
    /\ ii_y = <<>>

\* y_ref = lfilter([b0, b1, b2], [1.0, -a1, -a2], x), the next sample of it.
IirStep ==
    /\ ii_x # <<>>
    /\ Len(ii_y) < Len(ii_x)
    /\ ii_y' = Append(ii_y, lfilter_next(<<b0, b1, b2>>, iir_denominator, ii_x, ii_y))
    /\ UNCHANGED <<ii_x, lp_in, lp, cfgvars, frvars, stvars, drvars, shvars>>

NextIir == IirStep

SpecIir == InitIir /\ [][NextIir]_vars

(***************************************************************************)
(* The loops over non-centered frames: the reference frames of             *)
(* test_fetch_frame_vs_librosa, the overlap-add of                         *)
(* test_overlap_add_reconstruction and the reference loop of test_stft,    *)
(* each one pass a step, over one (signal_len, frame_len, hop_len).        *)
(***************************************************************************)
\* A count that covers the whole signal, the last frame hanging over its end.
NumFramesCovering(signal_len, frame_len, hop_len) ==
    IF signal_len >= frame_len
    THEN 1 + CeilOfQuotient(signal_len - frame_len, hop_len)
    ELSE 0

\* n_frames = 1 + (len(signal) - frame_len) // hop_len if len(signal) >= frame_len else 0
n_frames(signal_len, frame_len, hop_len) ==
    IF signal_len >= frame_len
    THEN 1 + (signal_len - frame_len) \div hop_len
    ELSE 0

InitLoops ==
    /\ EnvEmpty /\ CfgIdle /\ FramesIdle /\ StatsIdle /\ DriverIdle /\ SharedIdle /\ IirIdle
    /\ lp_in \in [signal_len : 0..MaxSignalLen, frame_len : 1..MaxFrameLen,
                  hop_len : 1..MaxHopLen]
    /\ lp = [NoLoops EXCEPT
                !.n_frames = n_frames(lp_in.signal_len, lp_in.frame_len, lp_in.hop_len)]

\* for i in range(n_frames): a whole frame, or a zero-padded one.
RefFrame ==
    /\ lp_in.frame_len >= 1
    /\ lp.i < lp.n_frames
    /\ LET start == lp.i * lp_in.hop_len
           end == start + lp_in.frame_len
       IN  lp' = IF end <= lp_in.signal_len
                 THEN [lp EXCEPT !.i = @ + 1, !.whole = @ + 1]
                 ELSE [lp EXCEPT !.i = @ + 1, !.padded = @ + 1]
    /\ UNCHANGED <<ii_x, ii_y, lp_in, cfgvars, frvars, stvars, drvars, shvars>>

\* for i in range(n_frames): the frame is added if end <= len(signal).
OlaFrame ==
    /\ lp_in.frame_len >= 1
    /\ lp.j < lp.n_frames
    /\ LET start == lp.j * lp_in.hop_len
           end == start + lp_in.frame_len
       IN  lp' = IF end <= lp_in.signal_len
                 THEN [lp EXCEPT !.j = @ + 1, !.added = @ + 1]
                 ELSE [lp EXCEPT !.j = @ + 1]
    /\ UNCHANGED <<ii_x, ii_y, lp_in, cfgvars, frvars, stvars, drvars, shvars>>

\* for start in range(0, args.n - args.fft + 1, args.hop)
StftFrame ==
    /\ lp_in.frame_len >= 1
    /\ lp.start < lp_in.signal_len - lp_in.frame_len + 1
    /\ lp' = [lp EXCEPT !.start = @ + lp_in.hop_len, !.visits = @ + 1]
    /\ UNCHANGED <<ii_x, ii_y, lp_in, cfgvars, frvars, stvars, drvars, shvars>>

NextLoops == RefFrame \/ OlaFrame \/ StftFrame

SpecLoops == InitLoops /\ [][NextLoops]_vars

(***************************************************************************)
(* PROPERTIES                                                              *)
(***************************************************************************)

\* The frame counts as the specification words them: centered, the least count
\* whose hops cover the signal; non-centered, 0 for a signal shorter than a frame.
IsCeilOfQuotient(c, a, b) == c * b >= a /\ (c - 1) * b < a

FrameCountAsSpecified(row, is_center, count) ==
    IF is_center THEN IsCeilOfQuotient(count, row.signal_len, row.hop_len)
    ELSE count = (IF row.signal_len < row.frame_len THEN 0
              ELSE 1 + (row.signal_len - row.frame_len) \div row.hop_len)

RowAgrees(row) ==
    /\ FrameCountAsSpecified(row, FALSE, row.expected_non_centered)
    /\ FrameCountAsSpecified(row, TRUE, row.expected_centered)

\* C4: the count computed for a case is 0 or 1 + (signal_len - frame_len) // hop_len
\* when not centered and ceil(signal_len / hop_len), whatever frame_len is, when
\* centered; (1000,512,256) gives 2 and 4, (100,256,128) gives 0 and 1,
\* (1024,256,128) gives 7 and 8; test_get_num_frames raises exactly at an entry that
\* disagrees with the formula and passes only a table that agrees throughout.
C4_FrameCount ==
    /\ fr_state \in {"assert", "raised", "passed"} =>
          FrameCountAsSpecified(fr_table[fr_row], fr_center, fr_n)
    /\ fr_state = "assert" /\ fr_center =>
          \A fl \in 1..MaxFrameLen :
              fr_n = n_frames_librosa(fr_table[fr_row].signal_len, fl,
                                      fr_table[fr_row].hop_len, TRUE)
    /\ fr_state = "raised" =>
          ~FrameCountAsSpecified(fr_table[fr_row], fr_center,
                                 ExpectedOf(fr_table[fr_row], fr_center))
    /\ fr_state = "passed" => \A i \in 1..Len(fr_table) : RowAgrees(fr_table[i])
    /\ fr_state # "idle" =>
          \A i \in 1..(fr_row - 1) : RowAgrees(fr_table[i])
    /\ fr_table = test_cases => fr_state # "raised"
    /\ fr_state # "idle" =>
          /\ n_frames_librosa(1000, 512, 256, FALSE) = 2
          /\ n_frames_librosa(1000, 512, 256, TRUE) = 4
          /\ n_frames_librosa(100, 256, 128, FALSE) = 0
          /\ n_frames_librosa(100, 256, 128, TRUE) = 1
          /\ n_frames_librosa(1024, 256, 128, FALSE) = 7
          /\ n_frames_librosa(1024, 256, 128, TRUE) = 8

\* The test has gone through its whole table, and a sampled table whose signal is
\* shorter than its frame has been passed as well as one that is not.
C4_Witness ==
    /\ fr_state = "passed"
    /\ fr_table = test_cases
    /\ fr_row = Len(test_cases)
    /\ fr_center

C4_WitnessRaised ==
    /\ fr_state = "raised"
    /\ fr_table \in PerturbedTables

\* The sum of x[i] * x[i+k] over the overlap, term by term from index i on.
RECURSIVE LagSum(_, _, _)
LagSum(xs, k, i) ==
    IF i + k > Len(xs) THEN 0 ELSE xs[i] * xs[i + k] + LagSum(xs, k, i + 1)

\* a/b = c/d for fractions with positive denominators.
FracEq(a, b, c, d) == a * d = c * b

\* C5 as stated: every lag k of ref is the lag sum divided by N (biased).
C5_Biased ==
    \A j \in 1..Len(st_ref) :
        FracEq(st_ref[j].num, st_ref[j].den, LagSum(st_x, j - 1, 1), Len(st_x))

\* C5: every lag k of ref is the sum over i in 0..N-1-k of x[i]*x[i+k] divided by
\* the overlap N-k (the unbiased estimator); at lag 0 that is the mean of the
\* squared samples.
C5_Unbiased ==
    /\ \A j \in 1..Len(st_ref) :
          /\ st_ref[j].den = Len(st_x) - (j - 1)
          /\ FracEq(st_ref[j].num, st_ref[j].den,
                    LagSum(st_x, j - 1, 1), Len(st_x) - (j - 1))
    /\ Len(st_ref) >= 1 =>
          FracEq(st_ref[1].num, st_ref[1].den,
                 SeqSum([i \in 1..Len(st_x) |-> st_x[i] * st_x[i]]), Len(st_x))

\* All lags of a three-sample signal are computed and a later lag is not zero.
C5_Witness ==
    /\ Len(st_x) = 3
    /\ Len(st_ref) = 3
    /\ st_ref[2].num # 0
    /\ st_ref[3].num # 0

\* What the specification says _env_float returns for variable value v.
ExpectedFloat(v, d) ==
    IF v.set /\ PyFloat(v.val).exc = "none" THEN PyFloat(v.val).val ELSE d

\* C7: _env_float and read_tolerances raise nothing; an absent or unparsable
\* variable gives the default, a parsable one its value; VV_PY_RTOL and VV_PY_ATOL
\* are resolved each on its own; the environment is as it was.
C7_EnvFloatTotal ==
    /\ cfg_call.fn = "_env_float" =>
          /\ cfg_ret.exc = "none"
          /\ cfg_ret.v1 = ExpectedFloat(env[cfg_call.name], cfg_call.d1)
    /\ cfg_call.fn = "read_tolerances" =>
          /\ cfg_ret.exc = "none"
          /\ cfg_ret.v1 = ExpectedFloat(env["VV_PY_RTOL"], cfg_call.d1)
          /\ cfg_ret.v2 = ExpectedFloat(env["VV_PY_ATOL"], cfg_call.d2)
    /\ cfg_call.fn \in {"_env_float", "read_tolerances"} =>
          /\ env = env0
          /\ env["VV_PY_RTOL"] = SetTo(<<"1", "e", "-", "2">>) /\ cfg_call.name # "VV_PY_ATOL"
                => cfg_ret.v1 = [m |-> 1, e |-> -2]
          /\ env["VV_PY_ATOL"] = SetTo(<<" ", ".", "1">>) /\ cfg_call.fn = "read_tolerances"
                => cfg_ret.v2 = [m |-> 1, e |-> -1]
          /\ env["VV_PY_ATOL"] \in {SetTo(<<"1", "e">>), SetTo(<<>>), SetTo(<<"1", " ", "1">>)}
                /\ cfg_call.fn = "read_tolerances"
                => cfg_ret.v2 = cfg_call.d2

\* read_tolerances has returned with VV_PY_RTOL malformed and VV_PY_ATOL parsable.
C7_Witness ==
    /\ cfg_call.fn = "read_tolerances"
    /\ env["VV_PY_RTOL"] = SetTo(<<"1", "e", "-">>)
    /\ env["VV_PY_ATOL"] = SetTo(<<"0", ".", "5">>)
    /\ cfg_ret.v1 = cfg_call.d1
    /\ cfg_ret.v2 = [m |-> 5, e |-> -1]

\* Two characters that differ at most in case.
CasePairs ==
    {<<"o", "O">>, <<"n", "N">>, <<"y", "Y">>, <<"e", "E">>, <<"s", "S">>,
     <<"t", "T">>, <<"r", "R">>, <<"u", "U">>}

SameIgnoringCase(a, b) ==
    /\ Len(a) = Len(b)
    /\ \A i \in 1..Len(a) :
          a[i] = b[i] \/ <<a[i], b[i]>> \in CasePairs \/ <<b[i], a[i]>> \in CasePairs

\* C8: unset, the result is the default; set, it is true exactly when the value
\* is 1, true, yes or on up to case, whatever the default; the empty text and a
\* token with whitespace around it are false.
C8_EnvBool ==
    cfg_call.fn \in {"_env_bool", "is_verbose"} =>
        LET v == env["VV_PY_VERBOSE"]
        IN  /\ ~v.set => cfg_ret.b = cfg_call.b
            /\ v.set => (cfg_ret.b <=> \E t \in BoolTokens : SameIgnoringCase(v.val, t))
            /\ v.set /\ v.val = <<>> => ~cfg_ret.b
            /\ v.set /\ v.val # <<>> /\ (IsSpace(v.val[1]) \/ IsSpace(v.val[Len(v.val)]))
                  => ~cfg_ret.b

\* is_verbose(False) has answered true for a token written in mixed case.
C8_Witness ==
    /\ cfg_call.fn = "is_verbose"
    /\ ~cfg_call.b
    /\ env["VV_PY_VERBOSE"] = SetTo(<<"Y", "e", "s">>)
    /\ cfg_ret.b

\* A package the family requires cannot be imported.
RequiredMissing ==
    \/ ~have["numpy"]
    \/ ~have["scipy"]
    \/ family = "framing" /\ ~have["librosa"]

\* The statements done so far include one named op.
Did(op) == \E i \in 1..Len(log) : log[i] = op

\* C1 as stated: with a required package missing, a driver that has ended has
\* ended with status 77, and has generated no signal, written no exchange file
\* and invoked no subject.
C1_SkipWhenMissing ==
    family \in Families /\ RequiredMissing /\ exit.done =>
        /\ exit.code = SKIP_CODE
        /\ ~Did("gen") /\ ~Did("write") /\ ~Did("run")

\* The comparison of the run has found a mismatch.
Mismatch == cmp # NoCmp /\ ~cmp.ok

\* C2 as stated: a driver ends with status 77 only when a required package is
\* missing; a failing subject, a malformed subject output or a numerical mismatch
\* ends it with a status that is neither 0 nor 77.
C2_SkipOnlyWhenMissing ==
    family \in Families /\ exit.done =>
        /\ exit.code = SKIP_CODE => RequiredMissing
        /\ failed_at # 0 \/ bad_output \/ Mismatch => exit.code \notin {0, SKIP_CODE}

\* C3: once a subject invocation has ended non-zero, that invocation is the last
\* statement the driver does (no decoding, no comparison, no further invocation,
\* no success message) and the driver has ended with a non-zero status.
C3_FailStop ==
    failed_at # 0 =>
        /\ Len(log) = failed_at
        /\ log[failed_at] = "run"
        /\ proc.rc # 0
        /\ exit.done
        /\ exit.code # 0
        /\ ~Did("print_ok")
        /\ cmp = NoCmp \/ cmp.ok

\* A later subject invocation has failed after an earlier one succeeded and was
\* decoded, and the driver has ended.
C3_Witness ==
    /\ failed_at # 0
    /\ exit.done
    /\ Did("parse")
    /\ \E i \in 1..(failed_at - 1) : log[i] = "run"

\* C6 as stated: a run in which a subject printed a line that is not numeric or has
\* the wrong number of fields does not end in success.
C6_MalformedFails ==
    family \in Families /\ bad_output /\ exit.done => exit.code # 0

\* The defaults a family names for its tolerances where it compares.
CallSiteDefaults(fam) ==
    CASE fam = "czt" -> [rtol |-> Dec(FALSE, 2, -4), atol |-> Dec(FALSE, 2, -4)]
      [] fam = "dct" -> [rtol |-> Dec(FALSE, 1, -6), atol |-> Dec(FALSE, 1, -4)]
      [] fam = "fft" -> [rtol |-> Dec(FALSE, 5, -5), atol |-> Dec(FALSE, 5, -5)]
      [] fam = "filters" -> [rtol |-> Dec(FALSE, 3, -3), atol |-> Dec(FALSE, 3, -3)]
      [] fam = "resampler" -> [rtol |-> Dec(FALSE, 5, -2), atol |-> Dec(FALSE, 5, -2)]
      [] fam = "stats" -> [rtol |-> Dec(FALSE, 1, -4), atol |-> Dec(FALSE, 1, -4)]
      [] fam = "stft" -> [rtol |-> Dec(FALSE, 5, -2), atol |-> Dec(FALSE, 5, -2)]

\* C9 as stated: every comparison uses the values of VV_PY_RTOL and VV_PY_ATOL when
\* they parse and the family's defaults when they are absent or malformed, and no
\* driver ends at the statement that resolves its tolerances.
C9_TolerancesFromEnv ==
    family \in Families \ {"framing"} =>
        /\ cmp # NoCmp =>
              /\ cmp.rtol = ExpectedFloat(env["VV_PY_RTOL"], CallSiteDefaults(family).rtol)
              /\ cmp.atol = ExpectedFloat(env["VV_PY_ATOL"], CallSiteDefaults(family).atol)
        /\ exit.done /\ log # <<>> =>
              log[Len(log)] \notin {"read_tolerances", "args_tolerances", "float_env_or"}

\* C10 as stated: the resampler driver ends in success only when the subject
\* printed 2n-1 samples, and its comparison was of two sequences of that length.
C10_ExactLength ==
    family = "resampler" /\ exit.done /\ exit.code = 0 =>
        /\ Len(proc.out) = 2 * n - 1
        /\ cmp.ylen = 2 * n - 1
        /\ cmp.reflen = 2 * n - 1

\* The element-wise check as the claim words it: every sample of y is within
\* atol + rtol * |ref[i]| of the reference sample at its index.
ElementwiseHolds ==
    /\ Len(y) <= Len(ref)
    /\ \A i \in 1..Len(y) : Close(y[i], ref[i], rtol, atol)

\* The RMS amplitudes of y and of the reference cut to y's length agree under
\* max(rtol, 0.05) and max(atol, 0.05).
RmsAgree ==
    LET r2 == Take(ref, Len(y))
        rt2 == Max(TolMicro(rtol), 50000) \div 1000
        at2 == Max(TolMicro(atol), 50000) \div 1000
    IN  /\ y # <<>>
        /\ Abs(Rms(y) - Rms(r2)) <= at2 + (rt2 * Rms(r2)) \div 1000

\* C11 as stated: the STFT comparison passes exactly when the element-wise check
\* holds or the RMS amplitudes agree; the RMS check is made only after the
\* element-wise check failed, on two sequences of the same length; a failed
\* comparison ends the driver with a failure.
C11_StftVerdict ==
    family = "stft" /\ cmp # NoCmp =>
        /\ cmp.ok <=> (ElementwiseHolds \/ RmsAgree)
        /\ cmp.rms_tried => ~cmp.elementwise
        /\ cmp.rms_tried => cmp.ylen = cmp.reflen
        /\ ~cmp.ok => exit.done /\ exit.code # 0

\* C12: in both chirp-Z configurations, once the reference has been computed for
\* the command the subject was last run with, N, M, W and A of the reference call
\* are those of the subject's command line.
C12_SameParameters ==
    family = "czt" /\ call.ref.cmd # "" /\ call.ref.cmd = call.sub.cmd =>
        /\ call.ref.N = call.sub.N
        /\ call.ref.M = call.sub.M
        /\ call.ref.W = call.sub.W
        /\ call.ref.A = call.sub.A

\* The DFT-equivalence reference has been computed with -m different from -n.
C12_Witness ==
    /\ family = "czt"
    /\ call.ref.cmd = "czt_dft"
    /\ call.sub.cmd = "czt_dft"
    /\ args_m # n
    /\ call.ref.M = args_m

\* The zoom reference has been computed: M is 64 whatever -m is.
C12_WitnessZoom ==
    /\ family = "czt"
    /\ call.ref.cmd = "czt_zoom"
    /\ call.sub.cmd = "czt_zoom"
    /\ args_m # ZoomM
    /\ call.sub.M = ZoomM

\* C13 as stated: the vector the FIR subject filtered with is the vector the
\* reference filters with, and the subject's command line carries no parameters
\* from which it would design a filter of its own.
C13_SharedCoefficients ==
    family = "filters" /\ call.ref.cmd = "fir" /\ call.sub.cmd = "fir" =>
        /\ proc.coeffs = call.ref.coeffs
        /\ {"num_taps", "cutoff", "win"} \cap DOMAIN call.sub = {}

\* How many times the driver has done the statement op.
Count(op) == Cardinality({i \in 1..Len(log) : log[i] = op})

\* The comparison just made is the last statement the driver did.
JustCompared == family = "dct" /\ cmp # NoCmp /\ log # <<>> /\ log[Len(log)] = "compare"

\* The index in dct_lengths of the length the comparisons made so far have reached.
RoundOf(c) == (c + 1) \div 2

\* y reconstructs x within (rt, 1e-4).
Reconstructs(rt) ==
    /\ Len(y) = Len(x)
    /\ \A i \in 1..Len(y) : Close(y[i], x[i], rt, Dec(FALSE, 1, -4))

\* The relative tolerance test_dct.main resolves: VV_PY_RTOL when set and not empty.
DctRtol == float_env_or("VV_PY_RTOL", Dec(FALSE, 1, -6))

\* The inverse invocation just made was given the forward invocation's output, with
\* the forward's N and type, and N is the length of the signal of the pass.
InverseFollowsForward ==
    family = "dct" /\ call.sub.cmd = "dct_inv" /\ log[Len(log)] = "run" =>
        /\ call.prev.params.cmd = "dct_fwd"
        /\ call.prev.params.N = call.sub.N
        /\ call.prev.params.type = call.sub.type
        /\ call.sub.N = Len(x)
        /\ call.sub.input = call.prev.out

\* The comparisons come in the order of dct_lengths, two a length, each against the
\* x generated for that length, and a failing one is the last statement.
ComparedInOrder ==
    JustCompared =>
        /\ Count("compare") <= 2 * Len(dct_lengths)
        /\ Count("gen") = RoundOf(Count("compare"))
        /\ x = Signal("real", RoundOf(Count("compare")), dct_lengths[RoundOf(Count("compare"))])
        /\ cmp.atol = Dec(FALSE, 1, -4)
        /\ ~cmp.ok => exit.done /\ exit.code # 0 /\ ~Did("print_ok")

\* C14 as stated: success exactly when all ten round trips reconstruct x within
\* (1e-6, 1e-4), every failure of the driver being a round trip that did not; the
\* inverse is fed the forward's output; the first failing comparison ends the run.
C14_RoundTripsDefault ==
    family = "dct" =>
        /\ ComparedInOrder
        /\ InverseFollowsForward
        /\ JustCompared => (cmp.ok <=> Reconstructs(Dec(FALSE, 1, -6)))
        /\ exit.done =>
              /\ exit.code = 0 <=> (Count("compare") = 2 * Len(dct_lengths) /\ cmp.ok)
              /\ exit.code # 0 => failed_at # 0 \/ bad_output \/ Mismatch

\* C14: with SciPy importable and VV_PY_RTOL, VV_PY_ATOL absent, empty or parsable,
\* the DCT driver reports success exactly when all ten round trips, in the order
\* of dct_lengths, reconstruct x within (rtol, 1e-4), rtol being VV_PY_RTOL when
\* set and else 1e-6; otherwise it skips or ends at the statement that reads the
\* tolerance.  The inverse is fed the forward's output with the same N and type,
\* and the first failing comparison is the driver's last statement.
C14_RoundTrips ==
    family = "dct" =>
        /\ ComparedInOrder
        /\ InverseFollowsForward
        /\ JustCompared =>
              /\ DctRtol.exc = "none"
              /\ cmp.rtol = DctRtol.val
              /\ cmp.ok <=> Reconstructs(DctRtol.val)
        /\ exit.done =>
              /\ exit.code = 0 <=> (Count("compare") = 2 * Len(dct_lengths) /\ cmp.ok)
              /\ exit.code # 0 =>
                    \/ exit.code = SKIP_CODE /\ ~have["scipy"]
                    \/ log[Len(log)] = "import" /\ ~have["numpy"]
                    \/ /\ log[Len(log)] = "float_env_or"
                       /\ "ValueError" \in {DctRtol.exc,
                                            float_env_or("VV_PY_ATOL", Dec(FALSE, 1, -6)).exc}
                    \/ failed_at # 0
                    \/ bad_output
                    \/ Mismatch

\* The driver has succeeded under a relative tolerance taken from VV_PY_RTOL, its
\* last round trip being one that (1e-6, 1e-4) would have refused.
C14_Witness ==
    /\ family = "dct"
    /\ exit.done
    /\ exit.code = 0
    /\ Count("compare") = 2 * Len(dct_lengths)
    /\ cmp.rtol # Dec(FALSE, 1, -6)
    /\ ~Reconstructs(Dec(FALSE, 1, -6))
    /\ call.sub.cmd = "dct_inv"
    /\ call.sub.input = call.prev.out
    /\ call.sub.input # <<>>

\* A comparison of a later length has failed after earlier lengths passed.
C14_WitnessFailure ==
    /\ JustCompared
    /\ ~cmp.ok
    /\ Count("compare") > 2
    /\ exit.done

\* What run r's subject last read is what r itself had last written.
ReadOwn(r) ==
    sh_run[r].got # NoContent => sh_run[r].got = [by |-> r, at |-> sh_run[r].fed]

\* What run r's subject last read was written under the path it was told, by the
\* statement of either run that writes that path.
ReadEithers(r) ==
    sh_run[r].got # NoContent =>
        /\ sh_run[r].got.by \in Runs
        /\ sh_run[r].got.at \in 1..Len(ShSteps(sh_family))
        /\ ShSteps(sh_family)[sh_run[r].got.at].op = "write"
        /\ FixedPath(ShSteps(sh_family)[sh_run[r].got.at].file) = sh_run[r].read

\* C15: two concurrent runs of the DCT driver never hold the same temporary name,
\* and a subject of one never reads anything but what its own run last wrote;
\* two concurrent runs of a fixed-name driver name the same paths, so that what a
\* subject reads is the content of the same statement of either run (C15_Witness
\* is the interleaving in which it is the other run's).
C15_NoIsolation ==
    /\ sh_family = "dct" =>
          /\ \A r \in Runs : ReadOwn(r)
          /\ \A r, q \in Runs : r # q /\ sh_run[r].name # NoPath =>
                /\ sh_run[r].name # sh_run[q].name
                /\ sh_run[r].name \in DOMAIN sh_dir
                /\ sh_dir[sh_run[r].name].by = r
    /\ sh_family \in FixedNameDrivers =>
          /\ \A r \in Runs : ReadEithers(r)
          /\ \A path \in DOMAIN sh_dir : path[2] = 0

\* A subject of one run of a fixed-name driver has read what the other run wrote.
C15_Witness ==
    /\ sh_family \in FixedNameDrivers
    /\ \E r \in Runs : sh_run[r].got # NoContent /\ sh_run[r].got.by \in Runs \ {r}

\* Both DCT runs hold a temporary file at once and one's subject has read its own.
C15_WitnessDct ==
    /\ sh_family = "dct"
    /\ \A r \in Runs : sh_run[r].name # NoPath
    /\ \E r \in Runs : sh_run[r].got = [by |-> r, at |-> sh_run[r].fed]

\* C16 as stated: every reference sample is
\* b0*x[n] + b1*x[n-1] + b2*x[n-2] - a1*y[n-1] - a2*y[n-2], from a zero initial
\* state, b0, b1, b2, a1, a2 being the values on the subject's command line.
C16_IirRecursion ==
    \A i \in 1..Len(ii_y) :
        10 * ii_y[i] =
            Tenths(b0) * SampleAt(ii_x, i) + Tenths(b1) * SampleAt(ii_x, i - 1)
            + Tenths(b2) * SampleAt(ii_x, i - 2)
            - Tenths(a1) * SampleAt(ii_y, i - 1) - Tenths(a2) * SampleAt(ii_y, i - 2)

\* What the reference computes: the fed-back terms enter with the sign of the
\* command-line values, the denominator being [1, -a1, -a2].
IirAsCoded ==
    \A i \in 1..Len(ii_y) :
        10 * ii_y[i] =
            Tenths(b0) * SampleAt(ii_x, i) + Tenths(b1) * SampleAt(ii_x, i - 1)
            + Tenths(b2) * SampleAt(ii_x, i - 2)
            + Tenths(a1) * SampleAt(ii_y, i - 1) + Tenths(a2) * SampleAt(ii_y, i - 2)

\* The three loops have run to their ends.
LoopsDone ==
    /\ lp.i = lp.n_frames
    /\ lp.j = lp.n_frames
    /\ lp.start >= lp_in.signal_len - lp_in.frame_len + 1

\* C17: for a signal no shorter than a frame, n_frames is
\* 1 + (signal_len - frame_len) // hop_len, every frame 0..n_frames-1 ends within
\* the signal and frame n_frames would not; no reference frame is zero-padded,
\* the overlap-add loop adds every frame it counts, and the STFT reference loop
\* visits frame after frame at start = k * hop_len, n_frames of them in all.
C17_FramesFit ==
    lp_in.frame_len >= 1 /\ lp_in.hop_len >= 1 /\ lp_in.signal_len >= lp_in.frame_len =>
        /\ lp.n_frames = 1 + (lp_in.signal_len - lp_in.frame_len) \div lp_in.hop_len
        /\ \A k \in 0..(lp.n_frames - 1) :
              k * lp_in.hop_len + lp_in.frame_len <= lp_in.signal_len
        /\ lp.n_frames * lp_in.hop_len + lp_in.frame_len > lp_in.signal_len
        /\ lp.padded = 0
        /\ lp.whole = lp.i
        /\ lp.added = lp.j
        /\ lp.start = lp.visits * lp_in.hop_len
        /\ lp.visits <= lp.n_frames
        /\ lp.start >= lp_in.signal_len - lp_in.frame_len + 1 => lp.visits = lp.n_frames

\* All three loops are done over a signal that holds several frames and whose
\* last hop does not end on its last sample.
C17_Witness ==
    /\ lp_in.frame_len >= 2
    /\ lp_in.hop_len >= 2
    /\ lp_in.signal_len > lp_in.frame_len
    /\ (lp_in.signal_len - lp_in.frame_len) % lp_in.hop_len # 0
    /\ lp.n_frames >= 2
    /\ LoopsDone
    /\ lp.whole = lp.n_frames
    /\ lp.added = lp.n_frames
    /\ lp.visits = lp.n_frames

====
